---- MODULE Spec2Model ----
(***************************************************************************)
(* A model of the lazy-loading Drive cache of src/backend/classes.js:      *)
(* FolderTree (a cached node: FOLDER or FILE), Manager (the driveTrees     *)
(* forest, the cursor, search) and the remote store they call through     *)
(* gapi.  The model follows the second class set of the file (lines 683    *)
(* and on); the first class set (lines 1-682) is modelled where it differs *)
(* and a claim names it (the operators ending in V1).                      *)
(*                                                                         *)
(* JavaScript runs one task at a time, so the code between two awaits is   *)
(* one atomic action here; an await of a remote call or of a timer is the  *)
(* boundary at which other logical operations interleave.                  *)
(***************************************************************************)
EXTENDS Integers, Sequences, FiniteSets, TLC

(* ------------------------------------------------------------------ *)
(* Bounds of the model                                                *)
(* ------------------------------------------------------------------ *)
\* FolderTree objects that may exist at once under Spec
MaxTrees == 3
\* FolderTree objects that may exist at once under SpecNav
NavTrees == 4
\* listing calls counted for one FolderTree under SpecV1
MaxListCalls == 2
\* files that files.create may add to the store
MaxCreated == 2
\* the values.get calls issued for the Sheet
MaxReads == 3
\* the values.update calls issued for the Sheet
MaxWrites == 2
\* the calls of updateSigninStatus
MaxStatus == 6
\* the rows, and the cells of a row, normalizeRows is given
MaxRows == 2
MaxCols == 2
\* the logical operations (callers) that may be in flight concurrently
Callers == {1, 2}

(* ------------------------------------------------------------------ *)
(* The remote store (gapi.client.drive): a fixed forest of files.       *)
(* r is My Drive and h a shared drive; s is a folder without parents   *)
(* that is no drive of allDriveInfos (a folder shared with the user),  *)
(* g a folder in s and e a file in g.  b and d carry the same name;    *)
(* the name of e is contained in the name of x.                        *)
(* Ids and names are character sequences, so that == between an id and *)
(* a name, and the query operator "name contains", are computed.       *)
(* ------------------------------------------------------------------ *)
Undefined == <<>>

Remote ==
  << [id |-> <<"r">>, name |-> <<"M", "y">>,      parents |-> <<>>,           folder |-> TRUE],
     [id |-> <<"a">>, name |-> <<"A">>,           parents |-> << <<"r">> >>,  folder |-> TRUE],
     [id |-> <<"b">>, name |-> <<"B">>,           parents |-> << <<"a">> >>,  folder |-> TRUE],
     [id |-> <<"x">>, name |-> <<"R", "e", "p">>, parents |-> << <<"b">> >>,  folder |-> FALSE],
     [id |-> <<"d">>, name |-> <<"B">>,           parents |-> << <<"r">> >>,  folder |-> TRUE],
     [id |-> <<"s">>, name |-> <<"S">>,           parents |-> <<>>,           folder |-> TRUE],
     [id |-> <<"g">>, name |-> <<"G">>,           parents |-> << <<"s">> >>,  folder |-> TRUE],
     [id |-> <<"e">>, name |-> <<"R", "e">>,      parents |-> << <<"g">> >>,  folder |-> FALSE],
     [id |-> <<"h">>, name |-> <<"H">>,           parents |-> <<>>,           folder |-> TRUE] >>

\* the files that files.create has added to the store, in order of creation
VARIABLE created

\* the store as the calls see it
Store == Remote \o created

RemoteIds == {Store[i].id : i \in DOMAIN Store}
RemoteNames == {Store[i].name : i \in DOMAIN Store}

\* gapi.client.drive.files.get({fileId: id}): the record of the file
RemoteGet(id) == Store[CHOOSE i \in DOMAIN Store : Store[i].id = id]

NameOf(id) == RemoteGet(id).name

\* info.hasOwnProperty('parents')
HasParents(item) == Len(item.parents) > 0

\* the subsequence of s whose elements satisfy Test, in order
RECURSIVE SelectIds(_, _)
SelectIds(s, keep) ==
  IF s = <<>> THEN <<>>
  ELSE (IF Head(s).id \in keep THEN <<Head(s).id>> ELSE <<>>) \o SelectIds(Tail(s), keep)

\* q: "'<id>' in parents and trashed = false", split by mimeType as init does
ListFolders(id) ==
  SelectIds(Store, {Store[i].id : i \in {j \in DOMAIN Store :
      Store[j].folder /\ \E k \in DOMAIN Store[j].parents : Store[j].parents[k] = id}})

ListFiles(id) ==
  SelectIds(Store, {Store[i].id : i \in {j \in DOMAIN Store :
      ~Store[j].folder /\ \E k \in DOMAIN Store[j].parents : Store[j].parents[k] = id}})

\* the Drive query operator "name contains '<q>'"
Contains(name, q) ==
  \E i \in 1..(Len(name) - Len(q) + 1) : SubSeq(name, i, i + Len(q) - 1) = q

\* q: "name contains '<name>' and trashed = false": the matching files
SearchFiles(q) ==
  SelectIds(Store, {Store[i].id : i \in {j \in DOMAIN Store : Contains(Store[j].name, q)}})

(* ------------------------------------------------------------------ *)
(* State                                                              *)
(* ------------------------------------------------------------------ *)
VARIABLES
  trees,        \* the FolderTree objects; an object's identity is its index
  driveTrees,   \* Manager.driveTrees: the root FolderTrees, as indices
  currentDrive, \* Manager.currentDrive (0: undefined)
  currentFolder,\* Manager.currentFolder (0: undefined)
  pc,           \* where each caller's operation is suspended
  loc,          \* the local variables of each caller's operation
  earlyRead,    \* whether a fill or initFile has read the child info of a
                \* FolderTree that was not ready
  sheet,        \* a Sheet object and the spreadsheet it reads and writes
  manager,      \* Manager.initializeDriveInfo: where it is, and allDriveInfos
  page,         \* the page of the script runner: sign-in status, click listeners
  norm          \* a call of Sheet.normalizeRows: its argument and what it returned

vars == <<trees, driveTrees, currentDrive, currentFolder, pc, loc, earlyRead, created, sheet, manager, page, norm>>

(* ------------------------------------------------------------------ *)
(* Sheet                                                              *)
(* ------------------------------------------------------------------ *)
\* a padding that puts the empty strings before the cells
PadLeft(row, n) == [i \in 1..(n - Len(row)) |-> ""] \o row

\* a row filled up to n cells with ""
Pad(row, n) == row \o [i \in 1..(n - Len(row)) |-> ""]

\* the greatest length of a row of rows
RECURSIVE MaxLen(_)
MaxLen(rows) ==
  IF rows = <<>> THEN 0
  ELSE LET m == MaxLen(Tail(rows))
       IN  IF Len(Head(rows)) > m THEN Len(Head(rows)) ELSE m

\* normalizeRows(rows): [] for null, else every row padded to the longest
NormalizeRows(rows) == [i \in DOMAIN rows |-> Pad(rows[i], MaxLen(rows))]

\* the values a spreadsheet may hold: none, one row, rows of unequal length
\* (values.get leaves out trailing empty cells)
Bodies == {<<>>, << <<"a">> >>, << <<"a", "b">>, <<"c">> >>}

\* normalizeRows(rows) with its test for null
NormalizeRowsCall(arg) == IF arg.null THEN <<>> ELSE NormalizeRows(arg.rows)

\* no call of normalizeRows
NoNorm == [arg |-> [null |-> TRUE, rows |-> <<>>], called |-> 0, out |-> <<>>, again |-> <<>>]

\* nothing was returned yet
NoBody == [by |-> "none", body |-> <<>>, loaded |-> FALSE, rows |-> <<>>]

\* new Sheet(info): rows is undefined and the constructor has called init(),
\* whose get() has issued values.get.  content is what the spreadsheet holds;
\* reads counts the values.get calls issued, pending holds those in flight
\* ("init": the result goes to this.rows, "get": to the caller), writes the
\* values.update calls issued, each with whether rows was set and its values,
\* writing whether one is in flight, got what the last call returned
NewSheet ==
  [rows |-> <<>>, loaded |-> FALSE,
   content |-> << <<"a", "b">>, <<"c">> >>,
   reads |-> 1, pending |-> <<"init">>,
   writes |-> <<>>, writing |-> FALSE,
   got |-> NoBody]

(* ------------------------------------------------------------------ *)
(* FolderTree                                                         *)
(* ------------------------------------------------------------------ *)
\* new FolderTree(type, info, instance, parent): a FOLDER starts not ready and
\* its constructor calls init(), which issues the listing call at once.
\* Fields init (the state of that call) and listCalls (how many listing calls
\* were issued for the object) instrument the gapi call.
NewTree(type, id, parent) ==
  [type |-> type, id |-> id, parent |-> parent,
   branches |-> <<>>, childFolderInfo |-> <<>>, childFileInfo |-> <<>>,
   ready |-> (type # "FOLDER"),
   init |-> IF type = "FOLDER" THEN "pending" ELSE "none",
   listCalls |-> IF type = "FOLDER" THEN 1 ELSE 0]

\* what addBranch throws on a FILE
NoBranchOnFile == "You can not add a branch to a FILE FolderTree."

\* an addBranch that constructs the tree without its parent
AddBranchOrphan(ts, t, type, id) ==
  IF ts[t].type = "FILE" THEN ts
  ELSE Append([ts EXCEPT ![t].branches = Append(@, Len(ts) + 1)], NewTree(type, id, 0))

\* addBranch(type, info, instance): on a FolderTree that is not a FILE the
\* new tree is constructed and pushed on this.branches; on a FILE it throws
\* and nothing is added
AddBranch(ts, t, type, id) ==
  LET n == Len(ts) + 1
  IN  IF ts[t].type = "FILE" THEN ts
      ELSE Append([ts EXCEPT ![t].branches = Append(@, n)], NewTree(type, id, t))

\* initializedIDs: the ids of this.branches
InitializedIDs(ts, t) == {ts[ts[t].branches[i]].id : i \in DOMAIN ts[t].branches}

\* the first info of a child info array that id_or_name names (0: none)
FirstMatch(infos, arg) ==
  LET hits == {i \in DOMAIN infos : arg = infos[i] \/ arg = NameOf(infos[i])}
  IN  IF hits = {} THEN 0 ELSE CHOOSE i \in hits : \A j \in hits : i <= j

\* initFolder(id_or_name) past its wait: the child info it creates a branch
\* for (Undefined: none, it returns undefined)
InitFolderPick(ts, t, arg) ==
  IF arg \in InitializedIDs(ts, t) THEN Undefined
  ELSE LET i == FirstMatch(ts[t].childFolderInfo, arg)
       IN  IF i = 0 THEN Undefined ELSE ts[t].childFolderInfo[i]

\* initFile(id_or_name): the same over childFileInfo, without any wait
InitFilePick(ts, t, arg) ==
  IF arg \in InitializedIDs(ts, t) THEN Undefined
  ELSE LET i == FirstMatch(ts[t].childFileInfo, arg)
       IN  IF i = 0 THEN Undefined ELSE ts[t].childFileInfo[i]

\* the loop of fillFolders / fillFiles: one branch per info whose id is not
\* in initializedIDs, which is computed once before the loop
RECURSIVE FillLoop(_, _, _, _, _)
FillLoop(ts, t, type, infos, initialized) ==
  IF infos = <<>> THEN ts
  ELSE FillLoop(IF Head(infos) \in initialized THEN ts
                ELSE AddBranch(ts, t, type, Head(infos)),
                t, type, Tail(infos), initialized)

FillFoldersOf(ts, t) == FillLoop(ts, t, "FOLDER", ts[t].childFolderInfo, InitializedIDs(ts, t))
FillFilesOf(ts, t) == FillLoop(ts, t, "FILE", ts[t].childFileInfo, InitializedIDs(ts, t))

(* ------------------------------------------------------------------ *)
(* Callers: the logical operations in flight.  A caller that is not in  *)
(* an operation is "idle" with the record Idle; the other fields are    *)
(* the local variables of initFolder, searchAndInit and Manager.search  *)
(* (name: the id_or_name or driveID the operation was called with;     *)
(* kind: its requiredType; arg: the argument of the FolderTree method   *)
(* the operation is in; log: what it wrote with console.log; thrown:  *)
(* the exception that ended it),                                       *)
(* with calls, asked, index, made, base and cached instrumenting the     *)
(* operation: the remote calls it issued, the getInput invocations, the *)
(* index getInput returned, the ids of the FolderTrees it constructed,  *)
(* in order, the number of FolderTrees when it was called, and what the *)
(* drive trees held for its argument when it was called.                *)
(* ------------------------------------------------------------------ *)
\* requiredType = null
NoType == "ANY"

\* genFile(info): a Sheet when the mimeType includes "spreadsheet" (the store
\* holds none), else a DefaultFile; the instance keeps the record as info
GenFile(id) == [class |-> "DefaultFile", info |-> id]

\* no instance
NoFile == [class |-> "none", info |-> Undefined]

Idle ==
  [op |-> "none", node |-> 0, name |-> Undefined, kind |-> NoType, arg |-> Undefined, ret |-> 0, raw |-> NoFile,
   initAll |-> FALSE, prompt |-> FALSE, override |-> FALSE,
   files |-> <<>>, myFile |-> Undefined, parentFolder |-> Undefined,
   sequenceOfParents |-> <<>>, target |-> Undefined,
   index |-> -1, asked |-> 0, calls |-> 0, made |-> <<>>, base |-> 0, cached |-> "none",
   log |-> "none", thrown |-> "none"]

\* no operation is in flight or waiting to be collected
Quiet == \A p \in Callers : pc[p] = "idle"

(* ------------------------------------------------------------------ *)
(* Initial state: Manager.initializeDriveInfo has built the My Drive    *)
(* tree; its listing call is in flight.                                *)
(* ------------------------------------------------------------------ *)
MyDriveID == <<"r">>

\* this.allDriveInfos.map((driveInfo) => driveInfo.id)
AllDriveIds == {MyDriveID, <<"h">>}

\* the Manager once initializeDriveInfo and the switchDrive it calls have
\* ended: allDriveInfos holds My Drive, then the shared drives
Loaded == [step |-> "ready", allDriveInfos |-> <<MyDriveID, <<"h">>>>]

\* no click on the run button yet
NoClick == [ran |-> 0, signedIn |-> FALSE, any |-> FALSE]

\* the page once the user is signed in: updateSigninStatus(true) has run once
\* and has put its submit function on the run button
SignedInPage ==
  [stage |-> "listening", signedIn |-> TRUE, listeners |-> <<1>>, calls |-> 1,
   pending |-> "none", click |-> NoClick]

Init ==
  /\ trees = <<NewTree("FOLDER", MyDriveID, 0)>>
  /\ driveTrees = <<1>>
  /\ currentDrive = 1
  /\ currentFolder = 1
  /\ pc = [p \in Callers |-> "idle"]
  /\ loc = [p \in Callers |-> Idle]
  /\ earlyRead = FALSE
  /\ created = <<>>
  /\ sheet = NewSheet
  /\ manager = Loaded
  /\ page = SignedInPage
  /\ norm = NoNorm

(* ------------------------------------------------------------------ *)
(* FolderTree.init: the listing call returns                           *)
(* ------------------------------------------------------------------ *)
\* the response arrives: the items are parsed into the two info arrays and
\* ready becomes true
InitReturn(t) ==
  /\ trees[t].init = "pending"
  /\ trees' = [trees EXCEPT ![t].childFolderInfo = @ \o ListFolders(trees[t].id),
                            ![t].childFileInfo = @ \o ListFiles(trees[t].id),
                            ![t].ready = TRUE,
                            ![t].init = "fulfilled"]
  /\ UNCHANGED <<driveTrees, currentDrive, currentFolder, pc, loc, earlyRead, created, sheet, manager, page, norm>>

\* an init whose failed call still reaches this.ready = true
InitFailReady(t) ==
  /\ trees[t].init = "pending"
  /\ trees' = [trees EXCEPT ![t].init = "rejected", ![t].ready = TRUE]
  /\ UNCHANGED <<driveTrees, currentDrive, currentFolder, pc, loc, earlyRead, created, sheet, manager, page, norm>>

\* the call fails: the rejection handler logs and yields undefined, so
\* response.result throws and init ends rejected with ready still false
InitFail(t) ==
  /\ trees[t].init = "pending"
  /\ trees' = [trees EXCEPT ![t].init = "rejected"]
  /\ UNCHANGED <<driveTrees, currentDrive, currentFolder, pc, loc, earlyRead, created, sheet, manager, page, norm>>

(* ------------------------------------------------------------------ *)
(* FolderTree.initFolder                                               *)
(* ------------------------------------------------------------------ *)
\* the body of initFolder after the wait loop, run to its return in one task
InitFolderBody(ts, t, arg) ==
  LET pick == InitFolderPick(ts, t, arg)
  IN  IF pick = Undefined THEN ts ELSE AddBranch(ts, t, "FOLDER", pick)

\* a caller calls initFolder(id_or_name) on tree t: when t is ready the body
\* runs at once, else the caller sleeps in the delay loop
InitFolderCall(p, t, arg, cap) ==
  /\ pc[p] = "idle"
  /\ IF trees[t].ready
     THEN /\ Len(InitFolderBody(trees, t, arg)) <= cap
          /\ trees' = InitFolderBody(trees, t, arg)
          /\ UNCHANGED <<pc, loc>>
     ELSE /\ pc' = [pc EXCEPT ![p] = "initFolder"]
          /\ loc' = [loc EXCEPT ![p] = [Idle EXCEPT !.op = "initFolder", !.node = t, !.arg = arg]]
          /\ UNCHANGED trees
  /\ UNCHANGED <<driveTrees, currentDrive, currentFolder, earlyRead, created, sheet, manager, page, norm>>

\* a wait loop that is left at the first wake-up, ready or not
InitFolderReadyAtOnce(t) == TRUE

\* while (!this.ready) await delay(500): the loop is left at the first
\* wake-up that finds ready true
InitFolderReady(t) == trees[t].ready

\* the wake-up that leaves the loop; the body follows in the same task
InitFolderWake(p, cap) ==
  /\ pc[p] = "initFolder"
  /\ InitFolderReady(loc[p].node)
  /\ Len(InitFolderBody(trees, loc[p].node, loc[p].arg)) <= cap
  /\ trees' = InitFolderBody(trees, loc[p].node, loc[p].arg)
  /\ pc' = [pc EXCEPT ![p] = "idle"]
  /\ loc' = [loc EXCEPT ![p] = Idle]
  /\ UNCHANGED <<driveTrees, currentDrive, currentFolder, earlyRead, created, sheet, manager, page, norm>>

(* ------------------------------------------------------------------ *)
(* FolderTree.initFile, fillFolders, fillFiles, fill: synchronous       *)
(* bodies that read the child info arrays without waiting for ready     *)
(* ------------------------------------------------------------------ *)
InitFileBody(ts, t, arg) ==
  LET pick == InitFilePick(ts, t, arg)
  IN  IF pick = Undefined THEN ts ELSE AddBranch(ts, t, "FILE", pick)

InitFile(t, arg, cap) ==
  /\ Len(InitFileBody(trees, t, arg)) <= cap
  /\ trees' = InitFileBody(trees, t, arg)
  /\ earlyRead' = (earlyRead \/ ~trees[t].ready)
  /\ UNCHANGED <<driveTrees, currentDrive, currentFolder, pc, loc, created, sheet, manager, page, norm>>

FillFolders(t, cap) ==
  /\ Len(FillFoldersOf(trees, t)) <= cap
  /\ trees' = FillFoldersOf(trees, t)
  /\ earlyRead' = (earlyRead \/ ~trees[t].ready)
  /\ UNCHANGED <<driveTrees, currentDrive, currentFolder, pc, loc, created, sheet, manager, page, norm>>

FillFiles(t, cap) ==
  /\ Len(FillFilesOf(trees, t)) <= cap
  /\ trees' = FillFilesOf(trees, t)
  /\ earlyRead' = (earlyRead \/ ~trees[t].ready)
  /\ UNCHANGED <<driveTrees, currentDrive, currentFolder, pc, loc, created, sheet, manager, page, norm>>

\* fill(): fillFolders() then fillFiles(), both run to their end in one task
Fill(t, cap) ==
  /\ Len(FillFilesOf(FillFoldersOf(trees, t), t)) <= cap
  /\ trees' = FillFilesOf(FillFoldersOf(trees, t), t)
  /\ earlyRead' = (earlyRead \/ ~trees[t].ready)
  /\ UNCHANGED <<driveTrees, currentDrive, currentFolder, pc, loc, created, sheet, manager, page, norm>>

(* ------------------------------------------------------------------ *)
(* FolderTree.getLocal, getNested, get: synchronous lookups that create *)
(* a branch when the match is a child info                             *)
(* ------------------------------------------------------------------ *)
Miss == [hit |-> "none", at |-> 0, id |-> Undefined]

\* x.info.id == arg || x.info.name == arg  (no instance equals an id or name)
Matches(id, arg) == arg = id \/ arg = NameOf(id)

\* a lookup that does not test the type
TypeOkAny(type, requiredType) == TRUE

\* !requiredType || type == requiredType
TypeOk(type, requiredType) == requiredType = NoType \/ type = requiredType

\* the least index of s that satisfies Test (0: none)
FirstIn(s, good) == IF good = {} THEN 0 ELSE CHOOSE i \in good : \A j \in good : i <= j

\* getLocal: this, then the branches, then childFolderInfo, then childFileInfo.
\* hit "node": tree at is returned; "folder" / "file": this.initFolder(id) /
\* this.initFile(id) is called on tree at and its promise returned
GetLocalFind(ts, t, arg, requiredType) ==
  LET b == FirstIn(ts[t].branches,
             {i \in DOMAIN ts[t].branches :
                /\ Matches(ts[ts[t].branches[i]].id, arg)
                /\ TypeOk(ts[ts[t].branches[i]].type, requiredType)})
      fo == FirstIn(ts[t].childFolderInfo,
             {i \in DOMAIN ts[t].childFolderInfo :
                Matches(ts[t].childFolderInfo[i], arg) /\ TypeOk("FOLDER", requiredType)})
      fi == FirstIn(ts[t].childFileInfo,
             {i \in DOMAIN ts[t].childFileInfo :
                Matches(ts[t].childFileInfo[i], arg) /\ TypeOk("FILE", requiredType)})
  IN  IF Matches(ts[t].id, arg) /\ TypeOk(ts[t].type, requiredType)
        THEN [hit |-> "node", at |-> t, id |-> ts[t].id]
      ELSE IF b # 0
        THEN [hit |-> "node", at |-> ts[t].branches[b], id |-> ts[ts[t].branches[b]].id]
      ELSE IF fo # 0
        THEN [hit |-> "folder", at |-> t, id |-> ts[t].childFolderInfo[fo]]
      ELSE IF fi # 0
        THEN [hit |-> "file", at |-> t, id |-> ts[t].childFileInfo[fi]]
      ELSE Miss

\* getNested: getLocal on this, then getNested of each branch in order
RECURSIVE GetNestedFind(_, _, _, _)
RECURSIVE GetNestedBranches(_, _, _, _)
GetNestedFind(ts, t, arg, requiredType) ==
  LET find == GetLocalFind(ts, t, arg, requiredType)
  IN  IF find.hit # "none" THEN find
      ELSE GetNestedBranches(ts, ts[t].branches, arg, requiredType)

GetNestedBranches(ts, bs, arg, requiredType) ==
  IF bs = <<>> THEN Miss
  ELSE LET searchLower == GetNestedFind(ts, Head(bs), arg, requiredType)
       IN  IF searchLower.hit # "none" THEN searchLower
           ELSE GetNestedBranches(ts, Tail(bs), arg, requiredType)

\* get: getNested from the top parent
RECURSIVE TopParent(_, _)
TopParent(ts, t) == IF ts[t].parent = 0 THEN t ELSE TopParent(ts, ts[t].parent)

GetFind(ts, t, arg, requiredType) == GetNestedFind(ts, TopParent(ts, t), arg, requiredType)

\* the trees after a lookup has returned find: initFolder(id) / initFile(id)
\* on tree at when the match was a child info (the tree at is ready then, its
\* info arrays being filled in the task that sets ready, so no wait happens)
AfterFind(ts, find) ==
  IF find.hit = "folder" THEN InitFolderBody(ts, find.at, find.id)
  ELSE IF find.hit = "file" THEN InitFileBody(ts, find.at, find.id)
  ELSE ts

\* the tree a lookup returns (0: null)
FoundTree(ts, find) ==
  IF find.hit = "none" THEN 0
  ELSE IF find.hit = "node" THEN find.at
  ELSE IF Len(AfterFind(ts, find)) > Len(ts) THEN Len(ts) + 1 ELSE 0

\* the required types the Manager passes: none (getLocal, find) or "FOLDER"
\* (switchLocal)
RequiredTypes == {NoType, "FOLDER"}

\* whether the initFolder / initFile a lookup calls on a matching child info
\* throws: addBranch does on a FILE
FindThrows(ts, find) == find.hit \in {"folder", "file"} /\ ts[find.at].type = "FILE"

\* how a lookup that found find ends: the promise it returns is rejected
\* when addBranch threw
FindEnd(ts, find) == IF FindThrows(ts, find) THEN "crashed" ELSE "done"

\* the caller's record of a lookup that returned find
Looked(op, t, arg, requiredType, ts, find) ==
  [Idle EXCEPT !.op = op, !.node = t, !.name = arg, !.kind = requiredType,
               !.ret = FoundTree(ts, find), !.base = Len(ts), !.cached = find.hit,
               !.calls = IF find.hit = "folder" /\ FoundTree(ts, find) # 0 THEN 1 ELSE 0,
               !.thrown = IF FindThrows(ts, find) THEN NoBranchOnFile ELSE "none"]

\* tree.getLocal(id_or_name, requiredType), called by caller p
GetLocal(p, t, arg, requiredType, cap) ==
  LET find == GetLocalFind(trees, t, arg, requiredType)
  IN  /\ pc[p] = "idle"
      /\ Len(AfterFind(trees, find)) <= cap
      /\ trees' = AfterFind(trees, find)
      /\ pc' = [pc EXCEPT ![p] = FindEnd(trees, find)]
      /\ loc' = [loc EXCEPT ![p] = Looked("getLocal", t, arg, requiredType, trees, find)]
      /\ UNCHANGED <<driveTrees, currentDrive, currentFolder, earlyRead, created, sheet, manager, page, norm>>

\* Manager.find(id_or_name, requiredType): this.currentFolder.get(...), which
\* throws when currentFolder is null
Find(p, arg, requiredType, cap) ==
  /\ pc[p] = "idle"
  /\ IF currentFolder = 0
     THEN /\ pc' = [pc EXCEPT ![p] = "crashed"]
          /\ loc' = [loc EXCEPT ![p] = [Idle EXCEPT !.op = "find", !.name = arg,
                                                   !.kind = requiredType, !.base = Len(trees),
                                                   !.thrown = "TypeError"]]
          /\ UNCHANGED trees
     ELSE LET find == GetFind(trees, currentFolder, arg, requiredType)
          IN  /\ Len(AfterFind(trees, find)) <= cap
              /\ trees' = AfterFind(trees, find)
              /\ pc' = [pc EXCEPT ![p] = FindEnd(trees, find)]
              /\ loc' = [loc EXCEPT ![p] =
                           Looked("find", currentFolder, arg, requiredType, trees, find)]
  /\ UNCHANGED <<driveTrees, currentDrive, currentFolder, earlyRead, created, sheet, manager, page, norm>>

\* the id_or_name arguments callers pass: the ids and names of the folders
\* and of the files of the store (on a given tree most of them name no child)
FolderArgs ==
  {Remote[i].id : i \in {j \in DOMAIN Remote : Remote[j].folder /\ HasParents(Remote[j])}}
    \cup {Remote[i].name : i \in {j \in DOMAIN Remote : Remote[j].folder /\ HasParents(Remote[j])}}

FileIds == {Remote[i].id : i \in {j \in DOMAIN Remote : ~Remote[j].folder}}

FileArgs ==
  FileIds \cup {Remote[i].name : i \in {j \in DOMAIN Remote : ~Remote[j].folder}}

(* ------------------------------------------------------------------ *)
(* Manager.search, with getDrive, retrieveInfo, getInput and            *)
(* FolderTree.searchAndInit.  Each operator below is a synchronous       *)
(* stretch of the code and yields an outcome: the caller's next          *)
(* position, its locals, the trees and the drive trees.                 *)
(* ------------------------------------------------------------------ *)
Out(pos, rec, ts, dts) == [pc |-> pos, rec |-> rec, trees |-> ts, driveTrees |-> dts]

\* an exception leaves the async function: its promise is rejected with it
Throw(what, rec, ts, dts) == Out("crashed", [rec EXCEPT !.thrown = what], ts, dts)

\* the exception of reading a property of undefined
Crash(rec, ts, dts) == Throw("TypeError", rec, ts, dts)

\* the index in dts of the drive tree whose info.id is id (0: none)
DriveIndex(ts, dts, id) == FirstIn(dts, {i \in DOMAIN dts : ts[dts[i]].id = id})

\* the final step of search: initFolder(myFile.id) for a folder, else
\* searchAndInit(myFile.id), both on the folder the walk ended at
EndFolderBody(rec, ts, dts) ==
  LET pick == InitFolderPick(ts, rec.node, rec.myFile)
  IN  IF pick = Undefined THEN Out("done", [rec EXCEPT !.ret = 0], ts, dts)
      ELSE Out("done", [rec EXCEPT !.ret = Len(ts) + 1, !.calls = @ + 1,
                                   !.made = Append(@, pick)],
               AddBranch(ts, rec.node, "FOLDER", pick), dts)

FinalStart(rec, ts, dts) ==
  IF RemoteGet(rec.myFile).folder
  THEN IF ts[rec.node].ready THEN EndFolderBody(rec, ts, dts)
       ELSE Out("endFolder", rec, ts, dts)
  ELSE Out("searchAndInit", [rec EXCEPT !.arg = rec.myFile, !.calls = @ + 1], ts, dts)

\* a walk down that takes the ids from the front (shift instead of pop)
WalkDownShift(s) == IF s = <<>> THEN Undefined ELSE s[1]

\* the walk down: while (check != target) { nextID = sequenceOfParents.pop();
\* folder = await folder.initFolder(nextID); check = folder.info.id; }
WalkDownPop(s) == IF s = <<>> THEN Undefined ELSE s[Len(s)]

RECURSIVE WalkDownTest(_, _, _)
RECURSIVE WalkDownBody(_, _, _)
WalkDownTest(rec, ts, dts) ==
  IF ts[rec.node].id = rec.target THEN FinalStart(rec, ts, dts)
  ELSE LET called == [rec EXCEPT !.arg = WalkDownPop(rec.sequenceOfParents),
                                 !.sequenceOfParents =
                                    IF @ = <<>> THEN @ ELSE SubSeq(@, 1, Len(@) - 1)]
       IN  IF ts[rec.node].ready THEN WalkDownBody(called, ts, dts)
           ELSE Out("walkDown", called, ts, dts)

\* initFolder(nextID) past its wait, then folder.info.id, which throws when
\* initFolder returned undefined
WalkDownBody(rec, ts, dts) ==
  LET pick == InitFolderPick(ts, rec.node, rec.arg)
  IN  IF pick = Undefined THEN Crash(rec, ts, dts)
      ELSE WalkDownTest([rec EXCEPT !.node = Len(ts) + 1, !.calls = @ + 1,
                                    !.made = Append(@, pick)],
                        AddBranch(ts, rec.node, "FOLDER", pick), dts)

\* var folder = await this.getDrive(parentFolder), from the moment the drive
\* tree exists; target = sequenceOfParents[0]
WalkDownStart(rec, ts, dts) ==
  LET d == DriveIndex(ts, dts, rec.parentFolder)
  IN  WalkDownTest([rec EXCEPT !.node = dts[d],
                               !.target = IF rec.sequenceOfParents = <<>> THEN Undefined
                                          ELSE rec.sequenceOfParents[1]],
                   ts, dts)

\* getDrive(driveID) when info has no parents: the new FolderTree joins
\* driveTrees and getDrive is called again
GetDriveAdmit(rec, ts, dts) ==
  WalkDownStart([rec EXCEPT !.calls = @ + 1, !.made = Append(@, rec.parentFolder)],
                Append(ts, NewTree("FOLDER", rec.parentFolder, 0)),
                Append(dts, Len(ts) + 1))

\* getDrive(parentFolder): the drive tree if there is one; else retrieveInfo,
\* which answers from allDriveInfos (records without parents) or calls files.get
GetDriveStart(rec, ts, dts) ==
  IF DriveIndex(ts, dts, rec.parentFolder) # 0 THEN WalkDownStart(rec, ts, dts)
  ELSE IF rec.parentFolder \in AllDriveIds THEN GetDriveAdmit(rec, ts, dts)
  ELSE Out("getDrive", [rec EXCEPT !.calls = @ + 1], ts, dts)

\* the loop test of the walk up: an id of allDriveInfos ends it, any other id
\* is fetched by retrieveInfo
WalkUpTest(rec, ts, dts) ==
  IF rec.parentFolder \in AllDriveIds THEN GetDriveStart(rec, ts, dts)
  ELSE Out("walkUp", [rec EXCEPT !.calls = @ + 1], ts, dts)

\* a search that builds the path whatever initAll is
MaterializesAlways(initAll) == TRUE

\* if (initAll)
Materializes(initAll) == initAll

\* from var myFile = files[0] to the first await
AfterSelect(rec, ts, dts) ==
  IF rec.myFile = Undefined THEN Crash(rec, ts, dts)
  ELSE IF ~Materializes(rec.initAll) THEN Out("done", [rec EXCEPT !.raw = GenFile(rec.myFile)], ts, dts)
  ELSE IF ~HasParents(RemoteGet(rec.myFile)) THEN Crash(rec, ts, dts)
  ELSE WalkUpTest([rec EXCEPT !.parentFolder = RemoteGet(rec.myFile).parents[1]], ts, dts)

\* the check through the drive trees: the find of the first drive whose
\* get(name) is truthy
RECURSIVE CacheFind(_, _, _)
CacheFind(ts, dts, name) ==
  IF dts = <<>> THEN Miss
  ELSE LET find == GetFind(ts, Head(dts), name, NoType)
       IN  IF find.hit # "none" THEN find ELSE CacheFind(ts, Tail(dts), name)

\* a search that never looks through the drive trees
ChecksCacheNever(override) == FALSE

\* whether search looks through the drive trees before it queries
ChecksCache(override) == ~override

\* search(name, initAll, customQuery, prompt, override) up to its first await
SearchStart(rec, ts, dts) ==
  LET find == IF ChecksCache(rec.override) THEN CacheFind(ts, dts, rec.name) ELSE Miss
  IN  IF find.hit = "none" THEN Out("query", [rec EXCEPT !.calls = @ + 1], ts, dts)
      ELSE Out("done",
               [rec EXCEPT !.ret = FoundTree(ts, find),
                           !.calls = IF find.hit = "folder" THEN @ + 1 ELSE @,
                           !.made = IF find.hit = "node" THEN @ ELSE Append(@, find.id)],
               AfterFind(ts, find), dts)

\* a search that asks getInput whenever there are several candidates
AsksInputUnprompted(files, prompt) == Len(files) > 1

\* whether getInput is asked for an index
AsksInput(files, prompt) == Len(files) > 1 /\ prompt

\* files[index] (undefined when index is no index of files)
ElementAt(files, index) ==
  IF index + 1 \in DOMAIN files THEN files[index + 1] ELSE Undefined

\* a searchAndInit that takes every file for a child
IsChildOfAny(response, id) == TRUE

\* a search that drops the index getInput returned
SelectFirst(files, asked, index) == ElementAt(files, 0)

\* the candidate search goes on with: files = [files[index]] when getInput
\* was asked, then myFile = files[0]
Select(files, asked, index) ==
  IF asked THEN ElementAt(files, index) ELSE ElementAt(files, 0)

\* parsed.parent == this.info.id
IsChildOf(response, id) == response.parents[1] = id

\* searchAndInit(id) when files.get has answered: the file becomes a branch
\* if its first parent is this tree (includes(parsed) compares a fresh
\* object with the stored ones and is always false)
SearchAndInitBody(rec, ts, dts) ==
  LET response == RemoteGet(rec.arg)
  IN  IF ~HasParents(response) THEN Crash(rec, ts, dts)
      ELSE IF ~IsChildOf(response, ts[rec.node].id)
        THEN Out("done", [rec EXCEPT !.ret = 0], ts, dts)
      ELSE IF ts[rec.node].type = "FILE"
        THEN Throw(NoBranchOnFile, rec,
                   [ts EXCEPT ![rec.node].childFileInfo = Append(@, rec.arg)], dts)
      ELSE Out("done", [rec EXCEPT !.ret = Len(ts) + 1, !.made = Append(@, rec.arg)],
               AddBranch([ts EXCEPT ![rec.node].childFileInfo = Append(@, rec.arg)],
                         rec.node, "FILE", rec.arg), dts)

\* the step of caller p to outcome out
Step(p, out, cap) ==
  /\ Len(out.trees) <= cap
  /\ trees' = out.trees
  /\ driveTrees' = out.driveTrees
  /\ pc' = [pc EXCEPT ![p] = out.pc]
  /\ loc' = [loc EXCEPT ![p] = out.rec]
  /\ UNCHANGED <<currentDrive, currentFolder, earlyRead, created, sheet, manager, page, norm>>

SearchCall(p, name, initAll, prompt, override, cap) ==
  /\ pc[p] = "idle"
  /\ Step(p, SearchStart([Idle EXCEPT !.op = "search", !.name = name, !.initAll = initAll,
                                      !.prompt = prompt, !.override = override,
                                      !.base = Len(trees),
                                      !.cached = CacheFind(trees, driveTrees, name).hit],
                         trees, driveTrees), cap)

\* the query answers; getInput, when asked, returns any index, also one that
\* is no index of files
SearchResponse(p, cap) ==
  /\ pc[p] = "query"
  /\ LET files == SearchFiles(loc[p].name)
         asked == AsksInput(files, loc[p].prompt)
     IN  \E index \in 0..Len(files) :
           /\ ~asked => index = 0
           /\ Step(p, AfterSelect([loc[p] EXCEPT !.files = files,
                                                !.asked = IF asked THEN 1 ELSE 0,
                                                !.index = IF asked THEN index ELSE -1,
                                                !.myFile = Select(files, asked, index)],
                                  trees, driveTrees), cap)

\* retrieveInfo(parentFolder) answers in the walk up
WalkUp(p, cap) ==
  /\ pc[p] = "walkUp"
  /\ LET info == RemoteGet(loc[p].parentFolder)
         pushed == [loc[p] EXCEPT !.sequenceOfParents = Append(@, info.id)]
     IN  Step(p, IF ~HasParents(info) THEN GetDriveStart(pushed, trees, driveTrees)
                 ELSE WalkUpTest([pushed EXCEPT !.parentFolder = info.parents[1]],
                                 trees, driveTrees), cap)

\* retrieveInfo(driveID) answers in getDrive: a record with parents makes
\* getDrive return undefined, and folder.info throws
GetDriveReturn(p, cap) ==
  /\ pc[p] = "getDrive"
  /\ Step(p, IF HasParents(RemoteGet(loc[p].parentFolder))
             THEN Crash(loc[p], trees, driveTrees)
             ELSE GetDriveAdmit(loc[p], trees, driveTrees), cap)

\* the initFolder of the walk down leaves its wait loop
WalkDown(p, cap) ==
  /\ pc[p] = "walkDown"
  /\ InitFolderReady(loc[p].node)
  /\ Step(p, WalkDownBody(loc[p], trees, driveTrees), cap)

\* the initFolder(myFile.id) that ends search leaves its wait loop
EndFolder(p, cap) ==
  /\ pc[p] = "endFolder"
  /\ InitFolderReady(loc[p].node)
  /\ Step(p, EndFolderBody(loc[p], trees, driveTrees), cap)

\* a caller calls tree.searchAndInit(id): files.get is issued
SearchAndInitCall(p, t, id) ==
  /\ pc[p] = "idle"
  /\ pc' = [pc EXCEPT ![p] = "searchAndInit"]
  /\ loc' = [loc EXCEPT ![p] = [Idle EXCEPT !.op = "searchAndInit", !.node = t, !.arg = id,
                                           !.calls = 1, !.base = Len(trees)]]
  /\ UNCHANGED <<trees, driveTrees, currentDrive, currentFolder, earlyRead, created, sheet, manager, page, norm>>

\* files.get answers in searchAndInit, called by search or by a caller
SearchAndInitReturn(p, cap) ==
  /\ pc[p] = "searchAndInit"
  /\ Step(p, SearchAndInitBody(loc[p], trees, driveTrees), cap)

\* the caller has the result (or the exception) of its operation
Return(p) ==
  /\ pc[p] \in {"done", "crashed"}
  /\ pc' = [pc EXCEPT ![p] = "idle"]
  /\ loc' = [loc EXCEPT ![p] = Idle]
  /\ UNCHANGED <<trees, driveTrees, currentDrive, currentFolder, earlyRead, created, sheet, manager, page, norm>>

\* the names search is called with: a name two folders carry, the name of a
\* file, a part of it that is also the name of another file, the id of a
\* folder (no name contains it), the name of a folder in s
SearchArgs == {<<"B">>, <<"R", "e", "p">>, <<"R", "e">>, <<"b">>, <<"G">>}

\* callers are interchangeable: a new call is taken by the lowest idle caller
Free(p) == pc[p] = "idle" /\ \A q \in Callers : q < p => pc[q] # "idle"

(* ------------------------------------------------------------------ *)
(* Spec: FolderTree operations requested concurrently on the trees      *)
(* ------------------------------------------------------------------ *)
Next ==
  \/ \E t \in DOMAIN trees : InitReturn(t)
  \/ \E t \in DOMAIN trees : InitFail(t)
  \/ \E p \in Callers, t \in DOMAIN trees, arg \in FolderArgs :
        Free(p) /\ InitFolderCall(p, t, arg, MaxTrees)
  \/ \E p \in Callers : InitFolderWake(p, MaxTrees)
  \/ \E t \in DOMAIN trees, arg \in FileArgs : InitFile(t, arg, MaxTrees)
  \/ \E t \in DOMAIN trees : FillFolders(t, MaxTrees)
  \/ \E t \in DOMAIN trees : FillFiles(t, MaxTrees)
  \/ \E t \in DOMAIN trees : Fill(t, MaxTrees)

Spec == Init /\ [][Next]_vars

(* ------------------------------------------------------------------ *)
(* The first class set (lines 1-682) where it differs: the root is a    *)
(* "DRIVE" tree, the constructor's call (initFolderInfo) lists the       *)
(* folders only, and fillFiles lists the files itself, at every call.   *)
(* ------------------------------------------------------------------ *)
InitV1 ==
  /\ trees = <<[NewTree("FOLDER", MyDriveID, 0) EXCEPT !.type = "DRIVE"]>>
  /\ driveTrees = <<1>>
  /\ currentDrive = 1
  /\ currentFolder = 1
  /\ pc = [p \in Callers |-> "idle"]
  /\ loc = [p \in Callers |-> Idle]
  /\ earlyRead = FALSE
  /\ created = <<>>
  /\ sheet = NewSheet
  /\ manager = Loaded
  /\ page = SignedInPage
  /\ norm = NoNorm

\* initFolderInfo: the folders of the response join childFolderInfo
InitReturnV1(t) ==
  /\ trees[t].init = "pending"
  /\ trees' = [trees EXCEPT ![t].childFolderInfo = @ \o ListFolders(trees[t].id),
                            ![t].ready = TRUE,
                            ![t].init = "fulfilled"]
  /\ UNCHANGED <<driveTrees, currentDrive, currentFolder, pc, loc, earlyRead, created, sheet, manager, page, norm>>

\* a caller calls fillFiles() on tree t: files.list is issued for t
FillFilesCallV1(p, t) ==
  /\ pc[p] = "idle"
  /\ trees[t].listCalls < MaxListCalls
  /\ trees' = [trees EXCEPT ![t].listCalls = @ + 1]
  /\ pc' = [pc EXCEPT ![p] = "fillFiles"]
  /\ loc' = [loc EXCEPT ![p] = [Idle EXCEPT !.op = "fillFiles", !.node = t, !.calls = 1]]
  /\ UNCHANGED <<driveTrees, currentDrive, currentFolder, earlyRead, created, sheet, manager, page, norm>>

\* the loop of the first fillFiles: includes(parsed) compares a fresh object
\* with the stored ones, so every file of the response is pushed and branched
RECURSIVE FillFilesLoopV1(_, _, _)
FillFilesLoopV1(ts, t, files) ==
  IF files = <<>> THEN ts
  ELSE FillFilesLoopV1(
         AddBranch([ts EXCEPT ![t].childFileInfo = Append(@, Head(files))], t, "FILE", Head(files)),
         t, Tail(files))

\* the response of fillFiles arrives
FillFilesReturnV1(p, cap) ==
  /\ pc[p] = "fillFiles"
  /\ Len(FillFilesLoopV1(trees, loc[p].node, ListFiles(trees[loc[p].node].id))) <= cap
  /\ trees' = FillFilesLoopV1(trees, loc[p].node, ListFiles(trees[loc[p].node].id))
  /\ pc' = [pc EXCEPT ![p] = "idle"]
  /\ loc' = [loc EXCEPT ![p] = Idle]
  /\ UNCHANGED <<driveTrees, currentDrive, currentFolder, earlyRead, created, sheet, manager, page, norm>>

NextV1 ==
  \/ \E t \in DOMAIN trees : InitReturnV1(t)
  \/ \E t \in DOMAIN trees : InitFail(t)
  \/ \E t \in DOMAIN trees, arg \in FolderArgs :
        Quiet /\ InitFolderCall(1, t, arg, MaxTrees)
  \/ InitFolderWake(1, MaxTrees)
  \/ \E t \in DOMAIN trees : Quiet /\ FillFilesCallV1(1, t)
  \/ FillFilesReturnV1(1, MaxTrees)

SpecV1 == InitV1 /\ [][NextV1]_vars

(* ------------------------------------------------------------------ *)
(* The cursor and the local operations: Manager.switchDrive,            *)
(* switchLocal, find, FolderTree.getLocal, initFolder and initFile with *)
(* the value they return (SpecLocal), createFolder and createFile       *)
(* (SpecCreate).                                                        *)
(* ------------------------------------------------------------------ *)
\* the tree an operation that took ts to after has added and returns (0: none)
Added(ts, after) == IF Len(after) > Len(ts) THEN Len(ts) + 1 ELSE 0

\* the outcome of initFolder / initFile whose pick is given: addBranch
\* throws when this tree is a FILE
Picked(ts, t, pick) ==
  IF pick # Undefined /\ ts[t].type = "FILE" THEN "crashed" ELSE "done"

\* what the call rejects with when addBranch threw
Thrown(pos) == IF pos = "crashed" THEN NoBranchOnFile ELSE "none"

\* initFolder(id_or_name) called on a tree that is ready, with its result
InitFolderOn(p, t, arg, cap) ==
  /\ pc[p] = "idle"
  /\ InitFolderReady(t)
  /\ Len(InitFolderBody(trees, t, arg)) <= cap
  /\ trees' = InitFolderBody(trees, t, arg)
  /\ pc' = [pc EXCEPT ![p] = Picked(trees, t, InitFolderPick(trees, t, arg))]
  /\ loc' = [loc EXCEPT ![p] =
               [Idle EXCEPT !.op = "initFolder", !.node = t, !.name = arg,
                            !.base = Len(trees),
                            !.ret = Added(trees, InitFolderBody(trees, t, arg)),
                            !.calls = IF Added(trees, InitFolderBody(trees, t, arg)) # 0
                                      THEN 1 ELSE 0,
                            !.thrown = Thrown(Picked(trees, t, InitFolderPick(trees, t, arg)))]]
  /\ UNCHANGED <<driveTrees, currentDrive, currentFolder, earlyRead, created, sheet, manager, page, norm>>

\* initFile(id_or_name), with its result
InitFileOn(p, t, arg, cap) ==
  /\ pc[p] = "idle"
  /\ Len(InitFileBody(trees, t, arg)) <= cap
  /\ trees' = InitFileBody(trees, t, arg)
  /\ pc' = [pc EXCEPT ![p] = Picked(trees, t, InitFilePick(trees, t, arg))]
  /\ loc' = [loc EXCEPT ![p] =
               [Idle EXCEPT !.op = "initFile", !.node = t, !.name = arg,
                            !.base = Len(trees),
                            !.ret = Added(trees, InitFileBody(trees, t, arg)),
                            !.thrown = Thrown(Picked(trees, t, InitFilePick(trees, t, arg)))]]
  /\ earlyRead' = (earlyRead \/ ~trees[t].ready)
  /\ UNCHANGED <<driveTrees, currentDrive, currentFolder, created, sheet, manager, page, norm>>

\* a switchDrive that takes every id for a drive
KnownDriveAny(driveID) == TRUE

\* this.allDriveInfos.map((driveInfo) => driveInfo.id).includes(driveID)
KnownDrive(driveID) == driveID \in AllDriveIds

\* switchDrive(driveID).  For an id of allDriveInfos getDrive returns the drive
\* tree, which it first constructs when there is none: retrieveInfo answers
\* from allDriveInfos, a record without parents, so no call is issued and no
\* task but this one runs in between.  For any other id it logs and returns.
SwitchDrive(p, driveID, cap) ==
  LET known == KnownDrive(driveID)
      d == DriveIndex(trees, driveTrees, driveID)
      after == IF known /\ d = 0 THEN Append(trees, NewTree("FOLDER", driveID, 0)) ELSE trees
      drive == IF ~known THEN 0 ELSE IF d = 0 THEN Len(trees) + 1 ELSE driveTrees[d]
  IN  /\ pc[p] = "idle"
      /\ Len(after) <= cap
      /\ trees' = after
      /\ driveTrees' = IF known /\ d = 0 THEN Append(driveTrees, Len(trees) + 1) ELSE driveTrees
      /\ currentDrive' = IF known THEN drive ELSE currentDrive
      /\ currentFolder' = IF known THEN drive ELSE currentFolder
      /\ pc' = [pc EXCEPT ![p] = "done"]
      /\ loc' = [loc EXCEPT ![p] =
                   [Idle EXCEPT !.op = "switchDrive", !.name = driveID, !.ret = drive,
                                !.base = Len(trees),
                                !.calls = IF known /\ d = 0 THEN 1 ELSE 0,
                                !.log = IF known THEN "none"
                                        ELSE "That Drive ID was not found."]]
      /\ UNCHANGED <<earlyRead, created, sheet, manager, page, norm>>

\* switchLocal(id_or_name, initAll): currentFolder becomes what
\* currentFolder.getLocal(id_or_name, "FOLDER") returns, null included; with
\* initAll getFolderInfo then throws "Not Implemented"
SwitchLocal(p, arg, initAll, cap) ==
  /\ pc[p] = "idle"
  /\ IF currentFolder = 0
     THEN /\ pc' = [pc EXCEPT ![p] = "crashed"]
          /\ loc' = [loc EXCEPT ![p] = [Idle EXCEPT !.op = "switchLocal", !.name = arg,
                                                   !.kind = "FOLDER", !.base = Len(trees),
                                                   !.thrown = "TypeError"]]
          /\ UNCHANGED <<trees, currentFolder>>
     ELSE LET find == GetLocalFind(trees, currentFolder, arg, "FOLDER")
          IN  /\ Len(AfterFind(trees, find)) <= cap
              /\ trees' = AfterFind(trees, find)
              /\ currentFolder' = FoundTree(trees, find)
              /\ pc' = [pc EXCEPT ![p] = IF initAll THEN "crashed" ELSE "done"]
              /\ loc' = [loc EXCEPT ![p] =
                           [Looked("switchLocal", currentFolder, arg, "FOLDER", trees, find)
                              EXCEPT !.thrown = IF initAll THEN "Not Implemented" ELSE "none"]]
  /\ UNCHANGED <<driveTrees, currentDrive, earlyRead, created, sheet, manager, page, norm>>

\* the id files.create gives the next file
NewId == [i \in 1..(Len(created) + 1) |-> "n"]

\* createFolder(name): the assignment to the undeclared payload throws in
\* the strict code of a class body unless the page has a global of that name
\* (bound); then files.create is issued
CreateFolderCall(p, t, name) ==
  /\ pc[p] = "idle"
  /\ Len(created) < MaxCreated
  /\ \E bound \in BOOLEAN :
       /\ pc' = [pc EXCEPT ![p] = IF bound THEN "createFolder" ELSE "crashed"]
       /\ loc' = [loc EXCEPT ![p] =
                    [Idle EXCEPT !.op = "createFolder", !.node = t, !.name = name,
                                 !.base = Len(trees), !.calls = IF bound THEN 1 ELSE 0,
                                 !.thrown = IF bound THEN "none" ELSE "ReferenceError"]]
  /\ UNCHANGED <<trees, driveTrees, currentDrive, currentFolder, earlyRead, created, sheet, manager, page, norm>>

\* files.create answers: the new FolderTree is pushed on this.branches, not
\* through addBranch and without an entry in childFolderInfo
CreateFolderReturn(p, cap) ==
  /\ pc[p] = "createFolder"
  /\ Len(trees) < cap
  /\ created' = Append(created, [id |-> NewId, name |-> loc[p].name,
                                 parents |-> <<trees[loc[p].node].id>>, folder |-> TRUE])
  /\ trees' = Append([trees EXCEPT ![loc[p].node].branches = Append(@, Len(trees) + 1)],
                     NewTree("FOLDER", NewId, loc[p].node))
  /\ pc' = [pc EXCEPT ![p] = "done"]
  /\ loc' = [loc EXCEPT ![p].ret = Len(trees) + 1, ![p].calls = @ + 1,
                        ![p].made = Append(@, NewId)]
  /\ UNCHANGED <<driveTrees, currentDrive, currentFolder, earlyRead, sheet, manager, page, norm>>

\* createFile(FILE_INFO): without name or mimeType it returns undefined, else
\* files.create is issued
CreateFileCall(p, t, name) ==
  /\ pc[p] = "idle"
  /\ Len(created) < MaxCreated
  /\ \E complete \in BOOLEAN :
       /\ pc' = [pc EXCEPT ![p] = IF complete THEN "createFile" ELSE "done"]
       /\ loc' = [loc EXCEPT ![p] =
                    [Idle EXCEPT !.op = "createFile", !.node = t, !.name = name,
                                 !.base = Len(trees), !.calls = IF complete THEN 1 ELSE 0]]
  /\ UNCHANGED <<trees, driveTrees, currentDrive, currentFolder, earlyRead, created, sheet, manager, page, norm>>

\* files.create answers: the info is pushed on childFileInfo, then addBranch
\* is called, which throws when this tree is a FILE
CreateFileReturn(p, cap) ==
  LET t == loc[p].node
      pushed == [trees EXCEPT ![t].childFileInfo = Append(@, NewId)]
  IN  /\ pc[p] = "createFile"
      /\ Len(AddBranch(pushed, t, "FILE", NewId)) <= cap
      /\ created' = Append(created, [id |-> NewId, name |-> loc[p].name,
                                     parents |-> <<trees[t].id>>, folder |-> FALSE])
      /\ trees' = AddBranch(pushed, t, "FILE", NewId)
      /\ pc' = [pc EXCEPT ![p] = IF trees[t].type = "FILE" THEN "crashed" ELSE "done"]
      /\ loc' = [loc EXCEPT ![p].ret = Added(trees, AddBranch(pushed, t, "FILE", NewId)),
                            ![p].made = IF trees[t].type = "FILE" THEN @ ELSE Append(@, NewId),
                            ![p].thrown = IF trees[t].type = "FILE" THEN NoBranchOnFile ELSE "none"]
      /\ UNCHANGED <<driveTrees, currentDrive, currentFolder, earlyRead, sheet, manager, page, norm>>

\* the arguments of the local operations: names and ids of folders and of a
\* file, and the name new files are created with
LocalArgs == {<<"A">>, <<"B">>, <<"d">>, <<"x">>, <<"N">>}
NewNames == {<<"N">>}
\* the ids switchDrive is called with: My Drive, the shared drive, the folder
\* without parents that is no drive, a folder with a parent, an id of no file
DriveArgs == {MyDriveID, <<"h">>, <<"s">>, <<"a">>, <<"z">>}
\* every requiredType of getLocal
Kinds == {NoType, "FOLDER", "FILE"}

NextLocal ==
  \/ \E t \in DOMAIN trees : InitReturn(t)
  \/ \E t \in DOMAIN trees, arg \in LocalArgs : InitFolderOn(1, t, arg, MaxTrees)
  \/ \E t \in DOMAIN trees, arg \in LocalArgs : InitFileOn(1, t, arg, MaxTrees)
  \/ \E t \in DOMAIN trees, arg \in LocalArgs, requiredType \in Kinds :
        GetLocal(1, t, arg, requiredType, MaxTrees)
  \/ \E arg \in LocalArgs, requiredType \in Kinds : Find(1, arg, requiredType, MaxTrees)
  \/ \E driveID \in DriveArgs : SwitchDrive(1, driveID, MaxTrees)
  \/ \E arg \in LocalArgs, initAll \in BOOLEAN : SwitchLocal(1, arg, initAll, MaxTrees)
  \/ Return(1)

SpecLocal == Init /\ [][NextLocal]_vars

\* createFolder and createFile among the operations that read what they add
\* the ids files.create has returned, which callers look up afterwards
CreatedIds == {created[i].id : i \in DOMAIN created}

NextCreate ==
  \/ \E t \in DOMAIN trees : InitReturn(t)
  \/ \E t \in DOMAIN trees, name \in NewNames : CreateFolderCall(1, t, name)
  \/ CreateFolderReturn(1, MaxTrees)
  \/ \E t \in DOMAIN trees, name \in NewNames : CreateFileCall(1, t, name)
  \/ CreateFileReturn(1, MaxTrees)
  \/ \E t \in DOMAIN trees, arg \in LocalArgs : InitFolderOn(1, t, arg, MaxTrees)
  \/ \E t \in DOMAIN trees, arg \in LocalArgs : InitFileOn(1, t, arg, MaxTrees)
  \/ \E driveID \in DriveArgs : SwitchDrive(1, driveID, MaxTrees)
  \/ \E t \in DOMAIN trees, arg \in CreatedIds : GetLocal(1, t, arg, NoType, MaxTrees)
  \/ Return(1)

SpecCreate == Init /\ [][NextCreate]_vars

(* ------------------------------------------------------------------ *)
(* SpecNav: the operations of the Manager and of its trees, requested   *)
(* one at a time (each is awaited before the next), while the listing   *)
(* calls of the trees answer at any moment                              *)
(* ------------------------------------------------------------------ *)
NextNav ==
  \/ \E t \in DOMAIN trees : InitReturn(t)
  \/ \E t \in DOMAIN trees, arg \in FolderArgs :
        Quiet /\ InitFolderCall(1, t, arg, NavTrees)
  \/ InitFolderWake(1, NavTrees)
  \/ \E name \in SearchArgs, initAll, prompt, override \in BOOLEAN :
        Quiet /\ SearchCall(1, name, initAll, prompt, override, NavTrees)
  \/ SearchResponse(1, NavTrees)
  \/ WalkUp(1, NavTrees)
  \/ GetDriveReturn(1, NavTrees)
  \/ WalkDown(1, NavTrees)
  \/ EndFolder(1, NavTrees)
  \/ \E t \in DOMAIN trees, id \in FileIds :
        Quiet /\ SearchAndInitCall(1, t, id)
  \/ SearchAndInitReturn(1, NavTrees)
  \/ Return(1)

SpecNav == Init /\ [][NextNav]_vars

(* ------------------------------------------------------------------ *)
(* SpecFail: Manager.search while its remote calls and the listing      *)
(* calls of the trees may fail.  Every call of search has the handler   *)
(* err => console.log("Error ", err), which yields undefined in place   *)
(* of the response; the statement after the await then reads a          *)
(* property of undefined.                                              *)
(* ------------------------------------------------------------------ *)
\* the reason gapi rejects a failed call with
RemoteError == "err"

\* what the rejection handler writes
ErrorLog == "Error "

\* the handler has run in the operation of caller p
Failed(p) == [loc[p] EXCEPT !.log = ErrorLog]

\* files.list of the query fails: response.result throws
SearchFail(p, cap) ==
  /\ pc[p] = "query"
  /\ Step(p, Crash(Failed(p), trees, driveTrees), cap)

\* files.get fails in retrieveInfo during the walk up: info.id throws
WalkUpFail(p, cap) ==
  /\ pc[p] = "walkUp"
  /\ Step(p, Crash(Failed(p), trees, driveTrees), cap)

\* files.get fails in retrieveInfo called by getDrive: info.hasOwnProperty
\* throws
GetDriveFail(p, cap) ==
  /\ pc[p] = "getDrive"
  /\ Step(p, Crash(Failed(p), trees, driveTrees), cap)

\* files.get fails in searchAndInit: parseFileInfo(undefined) throws
SearchAndInitFail(p, cap) ==
  /\ pc[p] = "searchAndInit"
  /\ Step(p, Crash(Failed(p), trees, driveTrees), cap)

NextFail ==
  \/ \E t \in DOMAIN trees : InitReturn(t)
  \/ \E t \in DOMAIN trees : InitFail(t)
  \/ \E name \in SearchArgs, initAll \in BOOLEAN :
        Quiet /\ SearchCall(1, name, initAll, TRUE, FALSE, NavTrees)
  \/ SearchResponse(1, NavTrees)
  \/ SearchFail(1, NavTrees)
  \/ WalkUp(1, NavTrees)
  \/ WalkUpFail(1, NavTrees)
  \/ GetDriveReturn(1, NavTrees)
  \/ GetDriveFail(1, NavTrees)
  \/ WalkDown(1, NavTrees)
  \/ EndFolder(1, NavTrees)
  \/ SearchAndInitReturn(1, NavTrees)
  \/ SearchAndInitFail(1, NavTrees)
  \/ Return(1)

SpecFail == Init /\ [][NextFail]_vars

(* ------------------------------------------------------------------ *)
(* SpecSheet: the methods of a Sheet, called in any order while its     *)
(* reads and writes answer or fail and other users edit the spreadsheet *)
(* ------------------------------------------------------------------ *)
SheetOnly ==
  UNCHANGED <<trees, driveTrees, currentDrive, currentFolder, pc, loc, earlyRead, created,
              manager, page, norm>>

\* s without its i-th element
Drop(s, i) == SubSeq(s, 1, i - 1) \o SubSeq(s, i + 1, Len(s))

\* init(): this.rows = await this.get(); the call of get() issues values.get
SheetInit ==
  /\ sheet.reads < MaxReads
  /\ sheet' = [sheet EXCEPT !.reads = @ + 1, !.pending = Append(@, "init")]
  /\ SheetOnly

\* get(subsheet): issues values.get, whatever this.rows holds
SheetGet ==
  /\ sheet.reads < MaxReads
  /\ sheet' = [sheet EXCEPT !.reads = @ + 1, !.pending = Append(@, "get")]
  /\ SheetOnly

\* a values.get answers: get() returns the normalized values, which init
\* assigns to this.rows
SheetRead(i) ==
  /\ i \in DOMAIN sheet.pending
  /\ LET body == NormalizeRows(sheet.content)
     IN  sheet' = IF sheet.pending[i] = "init"
                  THEN [sheet EXCEPT !.pending = Drop(@, i), !.rows = body, !.loaded = TRUE]
                  ELSE [sheet EXCEPT !.pending = Drop(@, i),
                                     !.got = [by |-> "get", body |-> body,
                                              loaded |-> sheet.loaded, rows |-> sheet.rows]]
  /\ SheetOnly

\* a values.get fails: get() has no rejection handler, so it and init are
\* rejected and this.rows is not assigned
SheetReadFail(i) ==
  /\ i \in DOMAIN sheet.pending
  /\ sheet' = [sheet EXCEPT !.pending = Drop(@, i)]
  /\ SheetOnly

\* getRows(): polls until this.rows is not null, then returns it
GetRows ==
  /\ sheet.loaded
  /\ sheet' = [sheet EXCEPT !.got = [by |-> "getRows", body |-> sheet.rows,
                                    loaded |-> TRUE, rows |-> sheet.rows]]
  /\ SheetOnly

\* update(): issues values.update with values: this.rows
UpdateCall ==
  /\ ~sheet.writing
  /\ Len(sheet.writes) < MaxWrites
  /\ sheet' = [sheet EXCEPT !.writing = TRUE,
                            !.writes = Append(@, [loaded |-> sheet.loaded,
                                                  values |-> sheet.rows])]
  /\ SheetOnly

\* values.update answers (ok) or fails; a request without values writes no
\* cell
UpdateReturn(ok) ==
  /\ sheet.writing
  /\ LET w == sheet.writes[Len(sheet.writes)]
     IN  sheet' = [sheet EXCEPT !.writing = FALSE,
                                !.content = IF ok /\ w.loaded THEN w.values ELSE @]
  /\ SheetOnly

\* another user of the spreadsheet changes its values
RemoteEdit(body) ==
  /\ body # sheet.content
  /\ sheet' = [sheet EXCEPT !.content = body]
  /\ SheetOnly

NextSheet ==
  \/ SheetInit
  \/ SheetGet
  \/ \E i \in 1..MaxReads : SheetRead(i)
  \/ \E i \in 1..MaxReads : SheetReadFail(i)
  \/ GetRows
  \/ UpdateCall
  \/ \E ok \in BOOLEAN : UpdateReturn(ok)
  \/ \E body \in Bodies : RemoteEdit(body)

SpecSheet == Init /\ [][NextSheet]_vars

(* ------------------------------------------------------------------ *)
(* SpecWait: callers of initFolder and the listing calls of the trees,  *)
(* under fair scheduling: a timer that has expired runs its task, and   *)
(* every listing call in flight is answered or fails.  A call is taken  *)
(* only when the tree it may add still fits with those of the callers   *)
(* asleep, so that the bound on the trees never keeps a caller asleep.  *)
(* ------------------------------------------------------------------ *)
Asleep == {q \in Callers : pc[q] = "initFolder"}

WaitCall(p, t, arg) ==
  /\ Len(trees) + Cardinality(Asleep) < MaxTrees
  /\ InitFolderCall(p, t, arg, MaxTrees)

NextWait ==
  \/ \E t \in DOMAIN trees : InitReturn(t)
  \/ \E t \in DOMAIN trees : InitFail(t)
  \/ \E p \in Callers, t \in DOMAIN trees, arg \in FolderArgs :
        Free(p) /\ WaitCall(p, t, arg)
  \/ \E p \in Callers : InitFolderWake(p, MaxTrees)

SpecWait ==
  /\ Init
  /\ [][NextWait]_vars
  /\ \A p \in Callers : WF_vars(InitFolderWake(p, MaxTrees))
  /\ WF_vars(\E t \in DOMAIN trees : InitReturn(t) \/ InitFail(t))

(* ------------------------------------------------------------------ *)
(* Properties                                                          *)
(* ------------------------------------------------------------------ *)
\* the trees that list their children: every type but FILE
Containers == {t \in DOMAIN trees : trees[t].type # "FILE"}

\* the callers asleep in the wait loop of initFolder on tree t
Waiting(t) == {p \in Callers : pc[p] = "initFolder" /\ loc[p].node = t}

\* C1: when several discovery requests on the same folder tree overlap while
\* its children are not yet known, one listing call is issued for the tree
\* however many requests wait, and a request leaves the wait only in a state
\* where the tree is ready and holds the listed children, the same for all
C1_SingleDiscovery ==
  /\ [](\A t \in DOMAIN trees : trees[t].type = "FOLDER" => trees[t].listCalls = 1)
  /\ [][\A p \in Callers :
          pc[p] = "initFolder" /\ pc'[p] # "initFolder"
            => /\ trees[loc[p].node].ready
               /\ trees[loc[p].node].init = "fulfilled"
               /\ trees[loc[p].node].childFolderInfo = ListFolders(trees[loc[p].node].id)
               /\ trees[loc[p].node].childFileInfo = ListFiles(trees[loc[p].node].id)]_vars

\* two requests wait on one tree whose single listing call has returned
C1_Witness ==
  \E t \in DOMAIN trees :
    /\ Waiting(t) = Callers
    /\ trees[t].ready
    /\ trees[t].listCalls = 1

\* C2: a container tree whose children are known has had exactly one listing
\* call issued for it, whatever discovery requests followed
C2_ListedOnce ==
  \A t \in Containers : trees[t].ready => trees[t].listCalls = 1

\* C3: a failed listing call leaves the tree open to a retry: no request
\* waits on a tree that is not ready and has no listing call in flight
C3_FailureReleases ==
  \A t \in DOMAIN trees :
    Waiting(t) # {} => trees[t].ready \/ trees[t].init = "pending"

\* C4: every operation that reads the child info arrays of a tree runs once
\* the tree is ready, never on the arrays as they are before the listing
C4_ReadsWhenReady == earlyRead = FALSE

\* C5: the materialized children of a tree have distinct ids, whether they
\* were requested by id or by name
C5_DistinctChildren ==
  \A t \in DOMAIN trees :
    \A i, j \in DOMAIN trees[t].branches :
      i # j => trees[trees[t].branches[i]].id # trees[trees[t].branches[j]].id

\* C6: an id is held by at most one tree of the whole forest
C6_OneTreePerId ==
  \A t, u \in DOMAIN trees : t # u => trees[t].id # trees[u].id

\* the ids from the item without parents down to id, along first parents
RECURSIVE PathTo(_)
PathTo(id) ==
  IF id \notin RemoteIds THEN <<>>
  ELSE IF ~HasParents(RemoteGet(id)) THEN <<id>>
  ELSE Append(PathTo(RemoteGet(id).parents[1]), id)

\* the ids from tree t up to its top parent
RECURSIVE UpIds(_, _)
UpIds(ts, t) == IF t = 0 THEN <<>> ELSE <<ts[t].id>> \o UpIds(ts, ts[t].parent)

Reverse(s) == [i \in DOMAIN s |-> s[Len(s) + 1 - i]]

IsPrefix(s, u) == Len(s) <= Len(u) /\ s = SubSeq(u, 1, Len(s))

\* the search of caller p goes on with a candidate x that lies k >= 1 folders
\* below a drive of allDriveInfos, and no tree held x or one of these folders
\* when search was called
DeepFresh(p) ==
  LET rec == loc[p]
      path == PathTo(rec.myFile)
  IN  /\ rec.op = "search" /\ rec.initAll /\ rec.myFile # Undefined
      /\ Len(path) >= 3
      /\ path[1] \in AllDriveIds
      /\ \A t \in 1..rec.base : \A i \in 2..Len(path) : trees[t].id # path[i]

\* C7: a search with initAll for x below root -> A1 -> ... -> Ak (k >= 1),
\* none of A1..Ak, x being a tree yet, does not fail, constructs the trees
\* A1, ..., Ak, x in that order and no other, and returns the tree of x,
\* whose parents upwards are Ak, ..., A1, root
C7_PathReconstruction ==
  \A p \in Callers :
    DeepFresh(p) =>
      /\ pc[p] # "crashed"
      /\ IsPrefix(loc[p].made, Tail(PathTo(loc[p].myFile)))
      /\ Len(trees) = loc[p].base + Len(loc[p].made)
      /\ pc[p] = "done" =>
           /\ loc[p].made = Tail(PathTo(loc[p].myFile))
           /\ loc[p].ret \in DOMAIN trees
           /\ UpIds(trees, loc[p].ret) = Reverse(PathTo(loc[p].myFile))

\* a search has rebuilt the path of x = Rep below My -> A -> B
C7_Witness ==
  \E p \in Callers :
    /\ DeepFresh(p) /\ pc[p] = "done"
    /\ loc[p].made = << <<"a">>, <<"b">>, <<"x">> >>
    /\ UpIds(trees, loc[p].ret) = << <<"x">>, <<"b">>, <<"a">>, <<"r">> >>

\* C8 as stated: when a tree that existed at the call carries the requested
\* id or name and override is not set, search returns such a tree and has
\* issued no remote call
C8_LocalBeforeRemote ==
  \A p \in Callers :
    (/\ loc[p].op = "search" /\ ~loc[p].override
     /\ \E t \in 1..loc[p].base : Matches(trees[t].id, loc[p].name))
    => /\ pc[p] = "done"
       /\ loc[p].calls = 0
       /\ loc[p].ret \in 1..loc[p].base
       /\ Matches(trees[loc[p].ret].id, loc[p].name)

\* C8: when override is not set and the first match of the depth-first
\* lookup through the drive trees is a tree, search returns that tree and
\* issues no remote call; when the first match is a child info, search
\* returns the new tree of that child, having issued the listing call of
\* its constructor when it is a folder and no call when it is a file
C8_FirstMatchLocal ==
  \A p \in Callers :
    (loc[p].op = "search" /\ ~loc[p].override /\ loc[p].cached # "none")
    => /\ pc[p] = "done"
       /\ loc[p].ret \in DOMAIN trees
       /\ Matches(trees[loc[p].ret].id, loc[p].name)
       /\ loc[p].cached = "node" =>
            loc[p].calls = 0 /\ loc[p].ret <= loc[p].base /\ Len(trees) = loc[p].base
       /\ loc[p].cached = "folder" =>
            /\ loc[p].calls = 1 /\ loc[p].ret = loc[p].base + 1
            /\ trees[loc[p].ret].type = "FOLDER" /\ trees[loc[p].ret].listCalls = 1
       /\ loc[p].cached = "file" =>
            /\ loc[p].calls = 0 /\ loc[p].ret = loc[p].base + 1
            /\ trees[loc[p].ret].type = "FILE"

\* a search by name has returned a tree below a drive tree without a call
C8_Witness ==
  \E p \in Callers :
    /\ loc[p].op = "search" /\ ~loc[p].override /\ loc[p].cached = "node"
    /\ pc[p] = "done" /\ loc[p].calls = 0
    /\ loc[p].ret \in DOMAIN trees
    /\ trees[loc[p].ret].parent # 0

Responded(p) ==
  /\ loc[p].op = "search"
  /\ pc[p] \notin {"idle", "query"}
  /\ loc[p].override \/ loc[p].cached = "none"

\* C10: getInput is asked exactly when prompt is set and the query returned
\* more than one candidate, and at most once; when it is not asked search
\* goes on with the first candidate
C10_CallbackOnlyWhenAmbiguous ==
  \A p \in Callers :
    Responded(p) =>
      /\ loc[p].files = SearchFiles(loc[p].name)
      /\ loc[p].asked \in {0, 1}
      /\ loc[p].asked = 1 <=> (loc[p].prompt /\ Len(loc[p].files) > 1)
      /\ (loc[p].asked = 0 /\ loc[p].files # <<>>) => loc[p].myFile = loc[p].files[1]

\* several candidates without prompt: getInput was not asked, the first
\* candidate was taken
C10_Witness ==
  \E p \in Callers :
    /\ Responded(p) /\ ~loc[p].prompt /\ Len(loc[p].files) > 1
    /\ loc[p].asked = 0
    /\ loc[p].myFile = loc[p].files[1]

\* every entry of tree t that arg names (t itself, a branch, a child info)
\* is of another type than requiredType
OnlyOtherKind(t, arg, requiredType) ==
  /\ Matches(trees[t].id, arg) => trees[t].type # requiredType
  /\ \A i \in DOMAIN trees[t].branches :
       Matches(trees[trees[t].branches[i]].id, arg)
         => trees[trees[t].branches[i]].type # requiredType
  /\ \A i \in DOMAIN trees[t].childFolderInfo :
       Matches(trees[t].childFolderInfo[i], arg) => requiredType # "FOLDER"
  /\ \A i \in DOMAIN trees[t].childFileInfo :
       Matches(trees[t].childFileInfo[i], arg) => requiredType # "FILE"

\* C11: getLocal(id_or_name, requiredType) returns null when every entry the
\* argument names (the tree, a branch, a child info) is of another type than
\* requiredType, and that call constructs no tree
C11_KindInvariant ==
  \A p \in Callers :
    (/\ loc[p].op = "getLocal" /\ pc[p] = "done" /\ loc[p].kind # NoType
     /\ OnlyOtherKind(loc[p].node, loc[p].name, loc[p].kind))
    => /\ loc[p].ret = 0
       /\ loc[p].calls = 0
       /\ Len(trees) = loc[p].base

\* getLocal(x, "FOLDER") on the tree that holds the file info x returned null
C11_Witness ==
  \E p \in Callers :
    /\ loc[p].op = "getLocal" /\ pc[p] = "done"
    /\ loc[p].kind = "FOLDER" /\ loc[p].name = <<"x">>
    /\ \E i \in DOMAIN trees[loc[p].node].childFileInfo :
         trees[loc[p].node].childFileInfo[i] = <<"x">>
    /\ loc[p].ret = 0

\* the child info array initFolder / initFile of caller p reads
InfosRead(p) ==
  IF loc[p].op = "initFolder" THEN trees[loc[p].node].childFolderInfo
  ELSE trees[loc[p].node].childFileInfo

\* C12: initFolder / initFile on a ready tree that is no FILE returns the
\* child tree whenever a child info matches the argument by id or name (the
\* branch that existed before the call if there was one, else a new one),
\* and returns nothing only when no child info matches
C12_ReturnsChild ==
  \A p \in Callers :
    (/\ loc[p].op \in {"initFolder", "initFile"} /\ pc[p] \in {"done", "crashed"}
     /\ trees[loc[p].node].ready /\ trees[loc[p].node].type # "FILE")
    => IF \E i \in DOMAIN InfosRead(p) : Matches(InfosRead(p)[i], loc[p].name)
       THEN /\ pc[p] = "done"
            /\ loc[p].ret \in DOMAIN trees
            /\ Matches(trees[loc[p].ret].id, loc[p].name)
            /\ trees[loc[p].ret].parent = loc[p].node
            /\ (\E i \in DOMAIN trees[loc[p].node].branches :
                  /\ trees[loc[p].node].branches[i] <= loc[p].base
                  /\ Matches(trees[trees[loc[p].node].branches[i]].id, loc[p].name))
               => loc[p].ret <= loc[p].base
       ELSE loc[p].ret = 0

\* the elements of a sequence
Range(q) == {q[i] : i \in DOMAIN q}

\* C13: the id of every branch of a tree is in the child info array of the
\* tree for the type of the branch: childFolderInfo for a FOLDER branch,
\* childFileInfo for a FILE branch
C13_BranchesHaveInfo ==
  \A t \in DOMAIN trees :
    \A i \in DOMAIN trees[t].branches :
      LET b == trees[trees[t].branches[i]]
      IN  /\ b.type = "FOLDER" => b.id \in Range(trees[t].childFolderInfo)
          /\ b.type = "FILE" => b.id \in Range(trees[t].childFileInfo)

\* C14: a FILE tree has no child folder info, no child file info and no
\* branch, whatever operation was called on it
C14_LeafIsEmpty ==
  \A t \in DOMAIN trees :
    trees[t].type = "FILE" =>
      /\ trees[t].childFolderInfo = <<>>
      /\ trees[t].childFileInfo = <<>>
      /\ trees[t].branches = <<>>

\* the trees of driveTrees
Roots == Range(driveTrees)

\* the trees that hold t in their branches
Holders(t) == {u \in DOMAIN trees : t \in Range(trees[u].branches)}

\* the tree reached from t by following parent at most n times
RECURSIVE Climb(_, _, _)
Climb(ts, t, n) ==
  IF n = 0 \/ ts[t].parent = 0 THEN t ELSE Climb(ts, ts[t].parent, n - 1)

\* C15: a tree of driveTrees has no parent and is in no branches; any other
\* tree is in the branches of exactly one tree, once, and that tree is its
\* parent; following parent from any tree ends at a tree of driveTrees
C15_ParentConsistent ==
  \A t \in DOMAIN trees :
    /\ t \in Roots => trees[t].parent = 0 /\ Holders(t) = {}
    /\ t \notin Roots =>
         /\ trees[t].parent \in DOMAIN trees
         /\ Holders(t) = {trees[t].parent}
         /\ Cardinality({i \in DOMAIN trees[trees[t].parent].branches :
                           trees[trees[t].parent].branches[i] = t}) = 1
    /\ Climb(trees, t, Len(trees)) \in Roots

\* two drive trees, and a tree in the branches of one of them
C15_Witness ==
  /\ Len(driveTrees) = 2
  /\ \E t \in DOMAIN trees :
       /\ trees[t].parent # 0
       /\ trees[t].parent \in Roots

\* id is the id of a tree of driveTrees
IsRootId(id) == \E d \in Roots : trees[d].id = id

\* id is the id of a file of the store that has no parents
RootShaped(id) == id \in RemoteIds /\ ~HasParents(RemoteGet(id))

\* C16: switchDrive(driveID) succeeds for every id of a tree of driveTrees
\* and every id of a file without parents: afterwards driveTrees holds a
\* tree with that id, and currentDrive and currentFolder are that tree
C16_SwitchRootSucceeds ==
  \A p \in Callers :
    (/\ loc[p].op = "switchDrive" /\ pc[p] \in {"done", "crashed"}
     /\ IsRootId(loc[p].name) \/ RootShaped(loc[p].name))
    => /\ pc[p] = "done"
       /\ \E d \in Roots :
            trees[d].id = loc[p].name /\ currentDrive = d /\ currentFolder = d

\* C17: switchDrive(driveID) for an id that is neither the id of a tree of
\* driveTrees nor the id of a file without parents reports that the drive was
\* not found and changes neither currentDrive, currentFolder, driveTrees nor
\* any tree; the cursor stays a tree
C17_FailedSwitchKeepsCursor ==
  [][\A p \in Callers :
       (/\ pc[p] = "idle" /\ pc'[p] # "idle" /\ loc'[p].op = "switchDrive"
        /\ ~IsRootId(loc'[p].name) /\ ~RootShaped(loc'[p].name))
       => /\ UNCHANGED <<currentDrive, currentFolder, driveTrees, trees>>
          /\ pc'[p] = "done"
          /\ loc'[p].ret = 0
          /\ loc'[p].log = "That Drive ID was not found."
          /\ currentFolder = 0 \/ currentFolder' \in DOMAIN trees
          /\ currentDrive' \in Roots]_vars

\* switchDrive(a), a folder with a parent, has returned; the cursor is the
\* folder tree it was moved to before
C17_Witness ==
  \E p \in Callers :
    /\ loc[p].op = "switchDrive" /\ pc[p] = "done" /\ loc[p].name = <<"a">>
    /\ loc[p].log = "That Drive ID was not found."
    /\ currentFolder \in DOMAIN trees /\ currentFolder \notin Roots

\* t and the trees above it
RECURSIVE UpSet(_, _)
UpSet(ts, t) == IF t = 0 THEN {} ELSE {t} \cup UpSet(ts, ts[t].parent)

\* C18: find(id_or_name, requiredType) returns a tree only if it is
\* currentFolder or lies below currentFolder: the lookup is confined to the
\* subtree of the cursor
C18_FindInSubtree ==
  \A p \in Callers :
    (loc[p].op = "find" /\ pc[p] = "done" /\ loc[p].ret # 0)
    => loc[p].node \in UpSet(trees, loc[p].ret)

Answered(p) ==
  /\ loc[p].op = "search"
  /\ loc[p].override \/ loc[p].cached = "none"
  /\ pc[p] \notin {"idle", "query"}

\* C21: a search that found nothing in the drive trees and whose query
\* returned no file ends without an exception, returns no tree and no file
\* instance, and has constructed no tree
C21_NoCandidateNotFound ==
  \A p \in Callers :
    (Answered(p) /\ loc[p].files = <<>>)
    => /\ pc[p] = "done"
       /\ loc[p].ret = 0
       /\ loc[p].raw = NoFile
       /\ Len(trees) = loc[p].base

\* the search of caller p goes on with a candidate whose chain of first
\* parents ends at a record without parents that is no drive of allDriveInfos
\* and was the id of no tree when search was called
UnderNewRoot(p) ==
  LET rec == loc[p]
      path == PathTo(rec.myFile)
  IN  /\ rec.op = "search" /\ rec.initAll /\ rec.myFile # Undefined
      /\ Len(path) >= 2
      /\ path[1] \notin AllDriveIds
      /\ \A t \in 1..rec.base : trees[t].id # path[1]

\* C22: a search with initAll whose walk up ends at a record without parents
\* that is no known root does not fail, and when it returns, a tree of that
\* record is in driveTrees and the tree returned is the tree of the
\* candidate, whose parents upwards lead to that new root, whatever the
\* number of folders between the root and the candidate
C22_NewRootPath ==
  \A p \in Callers :
    UnderNewRoot(p) =>
      /\ pc[p] # "crashed"
      /\ pc[p] = "done" =>
           /\ loc[p].ret \in DOMAIN trees
           /\ UpIds(trees, loc[p].ret) = Reverse(PathTo(loc[p].myFile))
           /\ TopParent(trees, loc[p].ret) \in {driveTrees[i] : i \in DOMAIN driveTrees}

\* C23: the ids search recognizes as roots in its walk up and switchDrive
\* accepts (the ids of allDriveInfos) include the id of every tree of
\* driveTrees
C23_RootsAreKnown ==
  \A i \in DOMAIN driveTrees : KnownDrive(trees[driveTrees[i]].id)

\* the number of levels tree t lies below its top parent
Depth(ts, t) == Len(UpIds(ts, t)) - 1

\* C24: a search with initAll that queried and returned the tree of its
\* candidate has issued at most depth + 1 remote calls, depth being the
\* level of that tree below its root, counting the query, the files.get
\* calls and the listing calls of the folder trees it constructed
C24_CallsWithinDepth ==
  \A p \in Callers :
    (Answered(p) /\ loc[p].initAll /\ pc[p] = "done" /\ loc[p].ret # 0)
    => loc[p].calls <= Depth(trees, loc[p].ret) + 1

\* C25: a search in which a remote call failed ends rejected with the
\* failure of that call, which no search without a failed call ends with,
\* the trees it constructed before the failure are kept, and no search is
\* left waiting on a tree whose listing call failed
C25_FailureSurfaces ==
  \A p \in Callers :
    /\ (loc[p].op = "search" /\ loc[p].log = ErrorLog)
       => /\ pc[p] = "crashed"
          /\ loc[p].thrown = RemoteError
          /\ Len(trees) >= loc[p].base + Len(loc[p].made)
    /\ (loc[p].op = "search" /\ loc[p].log # ErrorLog) => loc[p].thrown # RemoteError
    /\ (loc[p].op = "search" /\ pc[p] \in {"walkDown", "endFolder"})
       => trees[loc[p].node].init # "rejected"

\* C26: however init, get and getRows are called on a Sheet, at most one
\* values.get is issued for it, and a call that returns once this.rows is
\* set returns the rows the Sheet holds
C26_ReadOnce ==
  /\ sheet.reads <= 1
  /\ (sheet.got.by # "none" /\ sheet.got.loaded) => sheet.got.body = sheet.got.rows

\* C27: every values.update issued by update() is issued in a state where
\* this.rows has been loaded
C27_WriteOnlyLoaded ==
  \A i \in DOMAIN sheet.writes : sheet.writes[i].loaded

\* C28: under fair scheduling every caller asleep in the wait loop of
\* initFolder leaves it, whether the listing call of the tree was answered
\* or failed
C28_WaitersReturn ==
  \A p \in Callers : (pc[p] = "initFolder") ~> (pc[p] # "initFolder")

\* C29: a getLocal, and a find through getNested, that has returned has
\* issued no remote call, also when it made a tree of a child info
C29_LookupsStayLocal ==
  \A p \in Callers :
    (loc[p].op \in {"getLocal", "find"} /\ pc[p] = "done")
    => /\ loc[p].calls = 0
       /\ \A t \in (loc[p].base + 1)..Len(trees) : trees[t].listCalls = 0

\* the branches of tree t that carry arg with a type kind accepts, as
\* indices of t.branches
MatchedBranches(ts, t, arg, kind) ==
  {i \in DOMAIN ts[t].branches :
     /\ Matches(ts[ts[t].branches[i]].id, arg)
     /\ TypeOk(ts[ts[t].branches[i]].type, kind)}

\* the entries of the child info array infos, which holds infos of the
\* given type, that carry arg with a type kind accepts
MatchedInfo(infos, type, arg, kind) ==
  {i \in DOMAIN infos : Matches(infos[i], arg) /\ TypeOk(type, kind)}

\* tree n of ts is a new tree for id, of the given type, and the last branch
\* of tree t
MadeChild(ts, t, n, id, type) ==
  /\ Len(ts) = n
  /\ ts[n].id = id
  /\ ts[n].type = type
  /\ ts[n].parent = t
  /\ ts[t].branches # <<>>
  /\ ts[t].branches[Len(ts[t].branches)] = n

\* C30: getLocal returns this tree when it carries the argument with an
\* acceptable type; else the first such branch in the order of this.branches;
\* else the new tree of the first such entry of childFolderInfo; else the new
\* tree of the first such entry of childFileInfo, the new tree being a branch
\* of this tree; else null, and only a match on an entry adds a tree
C30_MatchOrder ==
  [][\A p \in Callers :
       (pc[p] = "idle" /\ pc'[p] \in {"done", "crashed"} /\ loc'[p].op = "getLocal") =>
         LET t == loc'[p].node
             arg == loc'[p].name
             kind == loc'[p].kind
             ret == loc'[p].ret
             bs == MatchedBranches(trees, t, arg, kind)
             fo == MatchedInfo(trees[t].childFolderInfo, "FOLDER", arg, kind)
             fi == MatchedInfo(trees[t].childFileInfo, "FILE", arg, kind)
         IN  IF Matches(trees[t].id, arg) /\ TypeOk(trees[t].type, kind)
               THEN ret = t /\ trees' = trees
             ELSE IF bs # {}
               THEN ret = trees[t].branches[FirstIn(trees[t].branches, bs)] /\ trees' = trees
             ELSE IF fo # {}
               THEN /\ ret = Len(trees) + 1
                    /\ MadeChild(trees', t, ret,
                                 trees[t].childFolderInfo[FirstIn(trees[t].childFolderInfo, fo)],
                                 "FOLDER")
             ELSE IF fi # {}
               THEN /\ ret = Len(trees) + 1
                    /\ MadeChild(trees', t, ret,
                                 trees[t].childFileInfo[FirstIn(trees[t].childFileInfo, fi)],
                                 "FILE")
             ELSE ret = 0 /\ trees' = trees]_vars

\* the child info of a tree: the ids its metadata lists, folders then files
ListedFolders(ts, t) == {ts[t].childFolderInfo[i] : i \in DOMAIN ts[t].childFolderInfo}
ListedFiles(ts, t) == {ts[t].childFileInfo[i] : i \in DOMAIN ts[t].childFileInfo}

\* the branches of t are one tree per listed id, a FOLDER tree for a listed
\* folder and a FILE tree for a listed file
OnePerListed(ts, t) ==
  /\ InitializedIDs(ts, t) = ListedFolders(ts, t) \cup ListedFiles(ts, t)
  /\ \A i, j \in DOMAIN ts[t].branches :
       i # j => ts[ts[t].branches[i]].id # ts[ts[t].branches[j]].id
  /\ \A i \in DOMAIN ts[t].branches :
       LET c == ts[ts[t].branches[i]]
       IN  /\ c.id \in ListedFolders(ts, t) => c.type = "FOLDER"
           /\ c.id \in ListedFiles(ts, t) => c.type = "FILE"

(* ------------------------------------------------------------------ *)
(* SpecFill: fill() among the operations that add FOLDER branches one   *)
(* by one: initFolder by id or by name, and createFolder                *)
(* ------------------------------------------------------------------ *)
NextFill ==
  \/ \E t \in DOMAIN trees : InitReturn(t)
  \/ \E t \in DOMAIN trees, arg \in LocalArgs : InitFolderOn(1, t, arg, NavTrees)
  \/ \E t \in DOMAIN trees, name \in NewNames : CreateFolderCall(1, t, name)
  \/ CreateFolderReturn(1, NavTrees)
  \/ \E t \in DOMAIN trees : Fill(t, NavTrees)
  \/ Return(1)

SpecFill == Init /\ [][NextFill]_vars

\* C31: when fill() ends on a ready FOLDER tree, its branches are exactly one
\* tree per id of its child info, of the type the info has, and the branches
\* it had before the call are still there, the same trees at the same places
C31_FillExact ==
  [][\A t \in DOMAIN trees :
       (trees[t].ready /\ trees[t].type = "FOLDER" /\ Fill(t, NavTrees))
         => /\ OnePerListed(trees', t)
            /\ IsPrefix(trees[t].branches, trees'[t].branches)
            /\ \A u \in DOMAIN trees : trees'[u].id = trees[u].id]_vars

\* C32: the ready flag of a FOLDER tree only moves forward: a new tree is not
\* ready and has its listing call in flight, a tree that is ready stays ready,
\* a tree becomes ready only in the step in which its listing call is
\* answered, and a listing call that has ended is never in flight again
C32_ReadyForward ==
  [][/\ \A t \in DOMAIN trees' \ DOMAIN trees :
          trees'[t].type = "FOLDER" => ~trees'[t].ready /\ trees'[t].init = "pending"
     /\ \A t \in DOMAIN trees :
          /\ trees[t].ready => trees'[t].ready
          /\ (~trees[t].ready /\ trees'[t].ready)
               => trees[t].init = "pending" /\ trees'[t].init = "fulfilled"
          /\ trees[t].init # "pending" => trees'[t].init = trees[t].init]_vars

\* a FOLDER tree made by initFolder has become ready while another tree's
\* listing call has failed and left it not ready
C32_Witness ==
  \E t, u \in DOMAIN trees :
    /\ trees[t].type = "FOLDER" /\ trees[t].parent # 0
    /\ trees[t].ready /\ trees[t].init = "fulfilled"
    /\ trees[u].init = "rejected" /\ ~trees[u].ready

\* the search of caller p goes on, with initAll, with a candidate whose first
\* parent is a drive of allDriveInfos
DirectUnderRoot(p) ==
  LET rec == loc[p]
      path == PathTo(rec.myFile)
  IN  /\ Answered(p) /\ rec.initAll /\ rec.myFile # Undefined
      /\ Len(path) = 2
      /\ path[1] \in AllDriveIds

\* C33: a search with initAll whose candidate lies directly in a drive of
\* allDriveInfos does not fail, constructs no tree but the candidate's, and
\* returns the tree of the candidate, a branch of the drive tree
C33_DirectChild ==
  \A p \in Callers :
    DirectUnderRoot(p) =>
      /\ pc[p] # "crashed"
      /\ IsPrefix(loc[p].made, <<loc[p].myFile>>)
      /\ pc[p] = "done" =>
           /\ loc[p].ret \in DOMAIN trees
           /\ UpIds(trees, loc[p].ret) = Reverse(PathTo(loc[p].myFile))

\* the search of caller p goes on, with initAll, with a candidate below a
\* drive of allDriveInfos that was no tree when search was called, while the
\* folders of its path down to some level were trees then, each a branch of
\* the one above
AncestorsMade(p) ==
  LET rec == loc[p]
      path == PathTo(rec.myFile)
  IN  /\ Answered(p) /\ rec.initAll /\ rec.myFile # Undefined
      /\ Len(path) >= 3
      /\ path[1] \in AllDriveIds
      /\ \A t \in 1..rec.base : trees[t].id # rec.myFile
      /\ \E k \in 2..(Len(path) - 1) : \A i \in 2..k : \E t \in 1..rec.base :
           UpIds(trees, t) = Reverse(SubSeq(path, 1, i))

\* C34: a search with initAll whose candidate has folders of its path already
\* constructed does not fail, constructs no second tree for an id that a tree
\* had at the call, and returns the tree of the candidate, whose parents
\* upwards are the folders of its path
C34_ReusesAncestors ==
  \A p \in Callers :
    AncestorsMade(p) =>
      /\ pc[p] # "crashed"
      /\ \A i \in DOMAIN loc[p].made : \A t \in 1..loc[p].base :
           trees[t].id # loc[p].made[i]
      /\ pc[p] = "done" =>
           /\ loc[p].ret \in DOMAIN trees
           /\ UpIds(trees, loc[p].ret) = Reverse(PathTo(loc[p].myFile))

\* C35: switchLocal moves currentFolder to a FOLDER tree found from the
\* current folder or leaves it as it is, never null: at every moment
\* currentFolder is a FOLDER tree whose parents lead up to currentDrive
C35_CursorOnFolder ==
  /\ currentFolder \in DOMAIN trees
  /\ trees[currentFolder].type = "FOLDER"
  /\ currentDrive \in UpSet(trees, currentFolder)

(* ------------------------------------------------------------------ *)
(* SpecRace: two callers search at the same time for items below the    *)
(* folder without parents that is no drive of allDriveInfos, so that    *)
(* both need its tree in driveTrees                                     *)
(* ------------------------------------------------------------------ *)
RaceArgs == {<<"G">>, <<"R", "e">>}

NextRace ==
  \/ \E t \in DOMAIN trees : InitReturn(t)
  \/ \E p \in Callers, name \in RaceArgs, prompt, override \in BOOLEAN :
        SearchCall(p, name, TRUE, prompt, override, NavTrees)
  \/ \E p \in Callers : SearchResponse(p, NavTrees)
  \/ \E p \in Callers : WalkUp(p, NavTrees)
  \/ \E p \in Callers : GetDriveReturn(p, NavTrees)
  \/ \E p \in Callers : WalkDown(p, NavTrees)
  \/ \E p \in Callers : EndFolder(p, NavTrees)
  \/ \E p \in Callers : SearchAndInitReturn(p, NavTrees)
  \/ \E p \in Callers : Return(p)

SpecRace == Init /\ [][NextRace]_vars

\* C36: callers that need the same id in driveTrees at the same time admit it
\* once: no two trees of driveTrees have the same id, and the trees two
\* finished searches return below that id have the same top parent
C36_AdmitOnce ==
  /\ \A i, j \in DOMAIN driveTrees :
       i # j => trees[driveTrees[i]].id # trees[driveTrees[j]].id
  /\ \A p, q \in Callers :
       (/\ pc[p] = "done" /\ pc[q] = "done"
        /\ loc[p].ret \in DOMAIN trees /\ loc[q].ret \in DOMAIN trees
        /\ trees[TopParent(trees, loc[p].ret)].id = trees[TopParent(trees, loc[q].ret)].id)
       => TopParent(trees, loc[p].ret) = TopParent(trees, loc[q].ret)

(* ------------------------------------------------------------------ *)
(* SpecStart: the Manager from its construction.  The constructor calls *)
(* initializeDriveInfo, which awaits drives.list, then files.get for    *)
(* 'root', and calls switchDrive without awaiting it; a caller's local   *)
(* operations come once the start has ended.                            *)
(* ------------------------------------------------------------------ *)
\* response.result.drives: the ids of the shared drives
DrivesList == << <<"h">> >>

InitStart ==
  /\ trees = <<>>
  /\ driveTrees = <<>>
  /\ currentDrive = 0
  /\ currentFolder = 0
  /\ pc = [p \in Callers |-> "idle"]
  /\ loc = [p \in Callers |-> Idle]
  /\ earlyRead = FALSE
  /\ created = <<>>
  /\ sheet = NewSheet
  /\ manager = [step |-> "drivesList", allDriveInfos |-> <<>>]
  /\ page = SignedInPage
  /\ norm = NoNorm

StartOnly == UNCHANGED <<pc, loc, earlyRead, created, sheet, page, norm>>

\* drives.list answers: allDriveInfos takes the shared drives, and
\* retrieveInfo('root'), which finds no such id there, issues files.get
DrivesListReturn ==
  /\ manager.step = "drivesList"
  /\ manager' = [step |-> "rootInfo", allDriveInfos |-> DrivesList]
  /\ UNCHANGED <<trees, driveTrees, currentDrive, currentFolder>>
  /\ StartOnly

\* drives.list fails: the call has no rejection handler, initializeDriveInfo
\* ends rejected
DrivesListFail ==
  /\ manager.step = "drivesList"
  /\ manager' = [manager EXCEPT !.step = "failed"]
  /\ UNCHANGED <<trees, driveTrees, currentDrive, currentFolder>>
  /\ StartOnly

\* files.get for 'root' answers: myDriveInfo goes to the front of
\* allDriveInfos, driveTrees is the new tree of My Drive, currentDrive is that
\* tree; switchDrive(myDriveID) runs up to its await of getDrive; then
\* "MANAGER IS LOADED" is logged
RootInfoReturn ==
  /\ manager.step = "rootInfo"
  /\ manager' = [step |-> "loaded", allDriveInfos |-> <<MyDriveID>> \o manager.allDriveInfos]
  /\ trees' = <<NewTree("FOLDER", MyDriveID, 0)>>
  /\ driveTrees' = <<1>>
  /\ currentDrive' = 1
  /\ UNCHANGED currentFolder
  /\ StartOnly

\* files.get for 'root' fails: the handler logs, retrieveInfo returns
\* undefined and parseFolderInfo throws on it
RootInfoFail ==
  /\ manager.step = "rootInfo"
  /\ manager' = [manager EXCEPT !.step = "failed"]
  /\ UNCHANGED <<trees, driveTrees, currentDrive, currentFolder>>
  /\ StartOnly

\* switchDrive goes on after its await: currentDrive and currentFolder
\* become the tree getDrive returned
SwitchDriveResume ==
  /\ manager.step = "loaded"
  /\ manager' = [manager EXCEPT !.step = "ready"]
  /\ currentDrive' = driveTrees[DriveIndex(trees, driveTrees, MyDriveID)]
  /\ currentFolder' = driveTrees[DriveIndex(trees, driveTrees, MyDriveID)]
  /\ UNCHANGED <<trees, driveTrees>>
  /\ StartOnly

Started == manager.step = "ready"

NextStart ==
  \/ DrivesListReturn
  \/ DrivesListFail
  \/ RootInfoReturn
  \/ RootInfoFail
  \/ SwitchDriveResume
  \/ \E t \in DOMAIN trees : Started /\ InitReturn(t)
  \/ \E t \in DOMAIN trees : Started /\ InitFail(t)
  \/ \E t \in DOMAIN trees, arg \in LocalArgs : Started /\ InitFolderOn(1, t, arg, MaxTrees)
  \/ \E driveID \in DriveArgs : Started /\ SwitchDrive(1, driveID, MaxTrees)
  \/ \E arg \in LocalArgs, initAll \in BOOLEAN :
        Started /\ SwitchLocal(1, arg, initAll, MaxTrees)
  \/ Return(1)

SpecStart == InitStart /\ [][NextStart]_vars

\* C37: when "MANAGER IS LOADED" is logged, driveTrees holds the tree of My
\* Drive, allDriveInfos holds the drives, My Drive first, and currentDrive
\* and currentFolder both are the tree of My Drive
C37_LoadedState ==
  manager.step = "loaded" =>
    /\ driveTrees # <<>> /\ trees[driveTrees[1]].id = MyDriveID
    /\ manager.allDriveInfos = <<MyDriveID>> \o DrivesList
    /\ currentDrive = driveTrees[1]
    /\ currentFolder = driveTrees[1]

(* ------------------------------------------------------------------ *)
(* SpecPage: the page of the script runner.  initClient awaits          *)
(* gapi.client.init, registers updateSigninStatus for the changes of    *)
(* the sign-in status and calls it with the status of the moment; the   *)
(* authorize and sign-out buttons ask for a change of the status.       *)
(* ------------------------------------------------------------------ *)
\* runbutton.addEventListener('click', f): f joins the listeners unless it
\* is one of them already
AddListener(ls, f) ==
  IF \E i \in DOMAIN ls : ls[i] = f THEN ls ELSE Append(ls, f)

\* runbutton.removeEventListener('click', f): the listener that is the
\* function object f is taken out
RemoveListener(ls, f) == SelectSeq(ls, LAMBDA g : g # f)

\* updateSigninStatus(isSignedIn): the function submit is created by this
\* call (a function object that no earlier call has seen, here the number of
\* the call); signed in it is added to the run button, else removed from it
UpdateSigninStatus(pg, isSignedIn) ==
  LET submit == pg.calls + 1
  IN  [pg EXCEPT !.calls = submit,
                 !.signedIn = isSignedIn,
                 !.listeners = IF isSignedIn THEN AddListener(@, submit)
                               ELSE RemoveListener(@, submit)]

InitPage ==
  /\ trees = <<>>
  /\ driveTrees = <<>>
  /\ currentDrive = 0
  /\ currentFolder = 0
  /\ pc = [p \in Callers |-> "idle"]
  /\ loc = [p \in Callers |-> Idle]
  /\ earlyRead = FALSE
  /\ created = <<>>
  /\ sheet = NewSheet
  /\ manager = [step |-> "none", allDriveInfos |-> <<>>]
  /\ page = [stage |-> "loading", signedIn |-> FALSE, listeners |-> <<>>, calls |-> 0,
             pending |-> "none", click |-> NoClick]
  /\ norm = NoNorm

PageOnly ==
  UNCHANGED <<trees, driveTrees, currentDrive, currentFolder, pc, loc, earlyRead, created,
              sheet, manager, norm>>

\* gapi.client.init is fulfilled: updateSigninStatus is called with
\* isSignedIn.get() and the two buttons get their onclick
InitClientReturn(isSignedIn) ==
  /\ page.stage = "loading"
  /\ page' = [UpdateSigninStatus(page, isSignedIn) EXCEPT !.stage = "listening"]
  /\ PageOnly

\* gapi.client.init is rejected: the error is appended to the page
InitClientFail ==
  /\ page.stage = "loading"
  /\ page' = [page EXCEPT !.stage = "failed"]
  /\ PageOnly

\* handleAuthClick: the authorize button is displayed while signed out
HandleAuthClick ==
  /\ page.stage = "listening" /\ ~page.signedIn /\ page.pending = "none"
  /\ page' = [page EXCEPT !.pending = "signIn"]
  /\ PageOnly

\* handleSignoutClick: the sign-out button is displayed while signed in
HandleSignoutClick ==
  /\ page.stage = "listening" /\ page.signedIn /\ page.pending = "none"
  /\ page' = [page EXCEPT !.pending = "signOut"]
  /\ PageOnly

\* the status has changed: the listener updateSigninStatus is called
StatusChange ==
  /\ page.pending # "none"
  /\ page.calls < MaxStatus
  /\ page' = [UpdateSigninStatus(page, page.pending = "signIn") EXCEPT !.pending = "none"]
  /\ PageOnly

\* the user gives up the sign-in: the status does not change
SignInAbandoned ==
  /\ page.pending = "signIn"
  /\ page' = [page EXCEPT !.pending = "none"]
  /\ PageOnly

\* a click on the run button: every listener runs the script once
RunClick ==
  /\ page' = [page EXCEPT !.click = [ran |-> Len(page.listeners),
                                     signedIn |-> page.signedIn, any |-> TRUE]]
  /\ PageOnly

NextPage ==
  \/ \E isSignedIn \in BOOLEAN : InitClientReturn(isSignedIn)
  \/ InitClientFail
  \/ HandleAuthClick
  \/ HandleSignoutClick
  \/ StatusChange
  \/ SignInAbandoned
  \/ RunClick

SpecPage == InitPage /\ [][NextPage]_vars

\* C38: whatever changes of the sign-in status have happened, the run button
\* has exactly one submit listener while the last status is signed in and
\* none while it is signed out, and a click has run the script once when the
\* user was signed in and not at all when signed out
C38_HandlerOnce ==
  /\ page.stage = "listening"
       => Len(page.listeners) = (IF page.signedIn THEN 1 ELSE 0)
  /\ page.click.any
       => page.click.ran = (IF page.click.signedIn THEN 1 ELSE 0)

(* ------------------------------------------------------------------ *)
(* SpecNormalize: Sheet.normalizeRows called on any value of rows, and   *)
(* then on what it returned                                             *)
(* ------------------------------------------------------------------ *)
Cells == {"", "a"}

\* the sequences of at most n elements of S
SeqUpTo(S, n) == UNION {[1..k -> S] : k \in 0..n}

\* what normalizeRows is called with: null, or rows of cells, also rows of
\* unequal length and rows that end in empty cells
NormArgs ==
  {[null |-> TRUE, rows |-> <<>>]}
    \cup {[null |-> FALSE, rows |-> r] : r \in SeqUpTo(SeqUpTo(Cells, MaxCols), MaxRows)}

InitNormalize ==
  /\ trees = <<>>
  /\ driveTrees = <<>>
  /\ currentDrive = 0
  /\ currentFolder = 0
  /\ pc = [p \in Callers |-> "idle"]
  /\ loc = [p \in Callers |-> Idle]
  /\ earlyRead = FALSE
  /\ created = <<>>
  /\ sheet = NewSheet
  /\ manager = [step |-> "none", allDriveInfos |-> <<>>]
  /\ page = SignedInPage
  /\ \E arg \in NormArgs : norm = [NoNorm EXCEPT !.arg = arg]

NormOnly ==
  UNCHANGED <<trees, driveTrees, currentDrive, currentFolder, pc, loc, earlyRead, created,
              sheet, manager, page>>

\* normalizeRows(rows)
NormalizeCall ==
  /\ norm.called = 0
  /\ norm' = [norm EXCEPT !.called = 1, !.out = NormalizeRowsCall(norm.arg)]
  /\ NormOnly

\* normalizeRows(what the first call returned)
NormalizeAgain ==
  /\ norm.called = 1
  /\ norm' = [norm EXCEPT !.called = 2,
                          !.again = NormalizeRowsCall([null |-> FALSE, rows |-> norm.out])]
  /\ NormOnly

NextNormalize == NormalizeCall \/ NormalizeAgain

SpecNormalize == InitNormalize /\ [][NextNormalize]_vars

\* C39: normalizeRows returns [] for null; for rows it returns as many rows,
\* in the same order, each as long as the longest row given, beginning with
\* its own cells and filled with "" after them; called on what it returned it
\* returns the same
C39_NormalizeRows ==
  LET rows == norm.arg.rows
      out == norm.out
  IN  /\ (norm.called >= 1 /\ norm.arg.null) => out = <<>>
      /\ (norm.called >= 1 /\ ~norm.arg.null) =>
           /\ Len(out) = Len(rows)
           /\ \A i \in DOMAIN rows :
                /\ \A j \in DOMAIN rows : Len(out[i]) >= Len(rows[j])
                /\ \E j \in DOMAIN rows : Len(out[i]) = Len(rows[j])
                /\ IsPrefix(rows[i], out[i])
                /\ \A k \in (Len(rows[i]) + 1)..Len(out[i]) : out[i][k] = ""
      /\ norm.called = 2 => norm.again = out

\* normalizeRows has filled a shorter row that follows a longer one, and the
\* call on its result has returned
C39_Witness ==
  /\ norm.called = 2 /\ ~norm.arg.null
  /\ Len(norm.arg.rows) = 2
  /\ Len(norm.arg.rows[2]) < Len(norm.arg.rows[1])
  /\ norm.arg.rows[2] # <<>>
  /\ norm.out # norm.arg.rows

====
